---- MODULE Spec2Model ----
(***************************************************************************)
(* Model of the cross-workspace aggregation layer of the ClickUp client:   *)
(* request_workspace_ids, request_time_entries_for_workspace_ids,          *)
(* user_worktime and user_tasks, in the class-based package                *)
(* (clickup_api_oop/additional_methods.py) and in the earlier single-file  *)
(* copy (clickup_api/clickup_api.py).  The remote service is the           *)
(* environment: every HTTP request is answered by a response drawn from a  *)
(* small set.  Text (usernames, rendered durations) is a sequence of       *)
(* one-character strings, so that case folding and formatting are          *)
(* computed, not assumed.                                                  *)
(***************************************************************************)
EXTENDS Integers, Sequences, FiniteSets, TLC

VARIABLES
    impl,              \* which copy of the code runs: "oop" or "legacy"
    op,                \* the public method that was called
    pc,                \* position inside the call
    team_id,           \* the team_id argument (a Python value)
    username,          \* the username argument of user_tasks
    only_billable,     \* the only_billable argument of user_worktime
    workspaces,        \* body of the last authorized-workspaces response held
    teams,             \* value returned by request_workspace_ids
    assignee,          \* user id resolved by user_tasks (0: not bound)
    is_user_in_workspace, \* the flag of user_tasks: "unbound", "true", "false"
    members_seen,      \* the users listed in the response user_tasks scanned
    requests,          \* every HTTP request issued by the call, in order
    responses,         \* pages collected by request_time_entries_for_workspace_ids
    last_response,     \* the last get_time_entries response received
    result,            \* the value returned (meaningful when pc = "returned")
    err,               \* the exception raised (meaningful when pc = "raised")
    fmt_in,            \* input of the duration formatting expression
    fmt_out,           \* its output
    data_obj,          \* the object a caller hands to a helper, as it is now
    data_given,        \* the contents of that object when the caller made it
    append_number,     \* the append_number argument of check_and_adjust_list_length
    random_value,      \* the filler drawn by the latest call of a helper
    calls,             \* number of calls made with the caller's object
    utc_offset,        \* seconds east of UTC of the local time zone of the process
    args,              \* the arguments of a get_tasks call, as they are now
    query,             \* the query parameters get_tasks hands to requests.get
    instance,          \* "none" until a ClickUpAPI object is constructed
    _token,            \* the _token attribute of the instance
    _api_url,          \* the _api_url attribute of the instance
    available_statuses, \* the list held by the class attribute of that name
    task_created,      \* create_task_with_checklist_and_items: its local task
    checklist_id,      \* ... its local checklist_id
    items_done         \* ... items the loop of add_items_to_a_checklist has passed

vars == <<impl, op, pc, team_id, username, only_billable, workspaces, teams,
          assignee, is_user_in_workspace, members_seen, requests, responses,
          last_response, result, err, fmt_in, fmt_out,
          data_obj, data_given, append_number, random_value, calls, utc_offset,
          args, query, instance, _token, _api_url, available_statuses,
          task_created, checklist_id, items_done>>

\* the variables of the calls of the helpers of handlers.py
hvars == <<data_obj, data_given, append_number, random_value, calls, utc_offset,
           args, query>>

\* the attributes of the class ClickUpAPI and of its instance
ivars == <<instance, _token, _api_url, available_statuses>>

\* the locals of create_task_with_checklist_and_items
cvars == <<task_created, checklist_id, items_done>>

(***************************************************************************)
(* Bounds of the model.                                                    *)
(***************************************************************************)
\* longest workspace-id list passed in, and most workspaces in a response
MaxWs == 2
\* most time entries the remote returns to one call, over all its pages
MaxEntries == 2
\* formatting inputs range over -MaxDays .. MaxDays whole days plus a remainder
MaxDays == 2

(***************************************************************************)
(* Python values.  A value is a record {type, items, n}: items are the     *)
(* elements of a list or tuple; n is the number for an int, 0/1 for a      *)
(* bool, the length for a str and the number of keys for a dict.           *)
(***************************************************************************)
PyNone == [type |-> "NoneType", items |-> <<>>, n |-> 0]
PyList(s) == [type |-> "list", items |-> s, n |-> 0]
PyTuple(s) == [type |-> "tuple", items |-> s, n |-> 0]
PyInt(k) == [type |-> "int", items |-> <<>>, n |-> k]
PyBool(b) == [type |-> "bool", items |-> <<>>, n |-> IF b THEN 1 ELSE 0]
PyStr(len) == [type |-> "str", items |-> <<>>, n |-> len]
PyDict(keys) == [type |-> "dict", items |-> <<>>, n |-> keys]

\* Python truth value: None, empty containers, 0, False and "" are falsy.
Truthy(v) ==
    CASE v.type = "NoneType" -> FALSE
      [] v.type \in {"list", "tuple"} -> Len(v.items) > 0
      [] OTHER -> v.n # 0

\* isinstance(v, (list, tuple))
IsListOrTuple(v) == v.type \in {"list", "tuple"}

(***************************************************************************)
(* Python values with their contents, for the helpers of handlers.py.  A   *)
(* value is a record {type, n, exp, text, items}: an int is n * 10^exp     *)
(* (exp = 0 unless the number is too large to be written out), a bool is   *)
(* n = 0 or 1, a float is n hundredths, a str is its text, a list or a     *)
(* tuple is its items, a dict is n keys, a datetime is its six fields.     *)
(***************************************************************************)
Value(type, n, exp, text, items) ==
    [type |-> type, n |-> n, exp |-> exp, text |-> text, items |-> items]

NoValue == Value("<no value>", 0, 0, <<>>, <<>>)
VNone == Value("NoneType", 0, 0, <<>>, <<>>)
VBool(b) == Value("bool", IF b THEN 1 ELSE 0, 0, <<>>, <<>>)
VInt(k) == Value("int", k, 0, <<>>, <<>>)
VIntE(k, e) == Value("int", k, e, <<>>, <<>>)
VFloat(hundredths) == Value("float", hundredths, 0, <<>>, <<>>)
VStr(s) == Value("str", 0, 0, s, <<>>)
VList(xs) == Value("list", 0, 0, <<>>, xs)
VTuple(xs) == Value("tuple", 0, 0, <<>>, xs)
VDict(keys) == Value("dict", keys, 0, <<>>, <<>>)
VDatetime(fields) == Value("datetime", 0, 0, <<>>, fields)

\* Python truth value of a value
VTruthy(v) ==
    CASE v.type = "NoneType" -> FALSE
      [] v.type \in {"list", "tuple"} -> Len(v.items) > 0
      [] v.type = "str" -> Len(v.text) > 0
      [] v.type = "datetime" -> TRUE
      [] OTHER -> v.n # 0

\* isinstance(v, list), isinstance(v, str), isinstance(v, bool)
IsList(v) == v.type = "list"
IsStr(v) == v.type = "str"
IsBool(v) == v.type = "bool"
\* isinstance(v, int): bool is a subclass of int
IsInt(v) == v.type \in {"int", "bool"}

\* no helper is being called
HandlersIdle ==
    /\ data_obj = NoValue
    /\ data_given = NoValue
    /\ append_number = FALSE
    /\ random_value = NoValue
    /\ calls = 0
    /\ utc_offset = 0
    /\ args = NoValue
    /\ query = NoValue

\* the statuses the class starts with (the letters a-ogonek and e-ogonek of
\* 'oczekujace' and 'zamkniete' are written a and e here)
InitialStatuses ==
    <<"nowe", "w trakcie", "oczekujace", "odrzucone", "gotowe", "zamkniete">>

\* no instance has been constructed and the class is as it was defined
InstanceIdle ==
    /\ instance = "none"
    /\ _token = NoValue
    /\ _api_url = NoValue
    /\ available_statuses = InitialStatuses

\* create_task_with_checklist_and_items is not running
NoBody == [has_id |-> FALSE, id |-> ""]
ChecklistIdle ==
    /\ task_created = NoBody
    /\ checklist_id = ""
    /\ items_done = 0

(***************************************************************************)
(* Text.                                                                   *)
(***************************************************************************)
UpperCase == <<"A","B","C","D","E","F","G","H","I","J","K","L","M",
               "N","O","P","Q","R","S","T","U","V","W","X","Y","Z">>
LowerCase == <<"a","b","c","d","e","f","g","h","i","j","k","l","m",
               "n","o","p","q","r","s","t","u","v","w","x","y","z">>

Letters == {UpperCase[i] : i \in DOMAIN UpperCase} \cup {LowerCase[i] : i \in DOMAIN LowerCase}

\* the lower-case letter of every letter
CasefoldMap ==
    [c \in Letters |->
        IF \E i \in DOMAIN UpperCase : UpperCase[i] = c
        THEN LowerCase[CHOOSE i \in DOMAIN UpperCase : UpperCase[i] = c]
        ELSE c]

CasefoldChar(c) == IF c \in Letters THEN CasefoldMap[c] ELSE c

\* str.casefold() on ASCII text
Casefold(s) == [i \in DOMAIN s |-> CasefoldChar(s[i])]

DigitChars == <<"0","1","2","3","4","5","6","7","8","9">>

RECURSIVE NatToChars(_)
NatToChars(k) ==
    IF k < 10 THEN <<DigitChars[k + 1]>>
    ELSE NatToChars(k \div 10) \o <<DigitChars[(k % 10) + 1]>>

\* "%d" % k
FormatD(k) == IF k < 0 THEN <<"-">> \o NatToChars(-k) ELSE NatToChars(k)

\* "%02d" % k, for k >= 0
Format02d(k) == IF k < 10 THEN <<"0">> \o NatToChars(k) ELSE NatToChars(k)

RECURSIVE ZeroPad(_, _)
ZeroPad(s, width) == IF Len(s) >= width THEN s ELSE ZeroPad(<<"0">> \o s, width)

\* "%06d" % k, for k >= 0
Format06d(k) == ZeroPad(NatToChars(k), 6)

\* s.split(".")[0]: the text before the first "."
RECURSIVE SplitDotFirst(_)
SplitDotFirst(s) ==
    IF s = <<>> \/ Head(s) = "." THEN <<>>
    ELSE <<Head(s)>> \o SplitDotFirst(Tail(s))

\* int(text) for a decimal literal with an optional leading "-"
DigitValue(c) == (CHOOSE i \in DOMAIN DigitChars : DigitChars[i] = c) - 1

RECURSIVE ParseNat(_)
ParseNat(s) ==
    IF s = <<>> THEN 0
    ELSE 10 * ParseNat(SubSeq(s, 1, Len(s) - 1)) + DigitValue(s[Len(s)])

PyIntOfText(s) == IF Head(s) = "-" THEN 0 - ParseNat(Tail(s)) ELSE ParseNat(s)

(***************************************************************************)
(* The rendering of an accumulated total:                                  *)
(*   str(datetime.timedelta(seconds=int(duration) / 1000)).split(".")[0]   *)
(***************************************************************************)
MsPerSecond == 1000
MsPerDay == 24 * 60 * 60 * MsPerSecond

\* datetime.timedelta(seconds=ms / 1000), normalised as Python stores it:
\* any number of days, 0 <= seconds < 86400, 0 <= microseconds < 1000000.
timedelta(ms) ==
    [days |-> ms \div MsPerDay,
     seconds |-> (ms % MsPerDay) \div MsPerSecond,
     microseconds |-> ((ms % MsPerDay) % MsPerSecond) * MsPerSecond]

Abs(k) == IF k < 0 THEN 0 - k ELSE k

\* timedelta.__str__: "[D day[s], ]H:MM:SS[.ffffff]"
timedelta_str(td) ==
    LET hh == td.seconds \div 3600
        mm == (td.seconds \div 60) % 60
        ss == td.seconds % 60
        s == FormatD(hh) \o <<":">> \o Format02d(mm) \o <<":">> \o Format02d(ss)
        plural == IF Abs(td.days) # 1 THEN <<"s">> ELSE <<>>
        withDays ==
            IF td.days # 0
            THEN FormatD(td.days) \o <<" ", "d", "a", "y">> \o plural
                 \o <<",", " ">> \o s
            ELSE s
    IN  IF td.microseconds # 0
        THEN withDays \o <<".">> \o Format06d(td.microseconds)
        ELSE withDays

\* the rendering with the .split(".")[0] forgotten (a faulty rendering)
FormatDuration_no_split(ms) == timedelta_str(timedelta(ms))

FormatDuration(ms) == SplitDotFirst(timedelta_str(timedelta(ms)))

(***************************************************************************)
(* The remote service: what its responses can be.                          *)
(***************************************************************************)
BoundedSeq(S, k) == UNION {[1..j -> S] : j \in 0..k}

NoneValue == "<None>"

alice == <<"a", "l", "i", "c", "e">>
Alice == <<"A", "l", "i", "c", "e">>
bob == <<"b", "o", "b">>

WsIds == {11, 12}

Members == {[user |-> [username |-> alice, id |-> 1]],
            [user |-> [username |-> bob, id |-> 2]]}

\* member lists of a workspace: every ordering of every subset of Members
MemberLists ==
    {s \in BoundedSeq(Members, Cardinality(Members)) :
        \A i, j \in DOMAIN s : i # j => s[i] # s[j]}

Teams == [id : WsIds, members : MemberLists]

\* bodies of the authorized-workspaces response: {"teams": [...]}
TeamsResponses == [teams : BoundedSeq(Teams, MaxWs)]

NoTeamsResponse == [teams |-> <<>>]

Task1 == [id |-> "t1", name |-> "Design", custom_id |-> "DEV-1"]
Task2 == [id |-> "t2", name |-> "Review", custom_id |-> NoneValue]

\* time entries as the remote returns them; duration is decimal text
TimeEntries ==
    {[id |-> "e1", user |-> [username |-> alice, id |-> 1],
      duration |-> FormatD(3600000), billable |-> TRUE, task |-> Task1],
     [id |-> "e2", user |-> [username |-> bob, id |-> 2],
      duration |-> FormatD(600000), billable |-> FALSE, task |-> Task2],
     [id |-> "e3", user |-> [username |-> bob, id |-> 2],
      duration |-> FormatD(900000), billable |-> TRUE, task |-> Task2]}

\* a get_time_entries response: with a "data" list, or an error body without
NoData == [has_data |-> FALSE, data |-> <<>>]
PageResponsesOf(entries, room) ==
    {NoData} \cup {[has_data |-> TRUE, data |-> s] : s \in BoundedSeq(entries, room)}
PageResponses(room) == PageResponsesOf(TimeEntries, room)

\* a time entry that came without the key f ("username": without that key of
\* its "user")
Without(e, f) ==
    IF f = "username"
    THEN [e EXCEPT !.user = [k \in DOMAIN e.user \ {"username"} |-> e.user[k]]]
    ELSE [k \in DOMAIN e \ {f} |-> e[k]]

EntryFields == {"duration", "billable", "username", "task"}

\* the entry of alice, whole and with one key missing, and the entry of bob
\* that is not billable without its duration
PartialEntries ==
    LET e1 == CHOOSE e \in TimeEntries : e.id = "e1"
        e2 == CHOOSE e \in TimeEntries : e.id = "e2"
    IN  {e1, Without(e2, "duration")} \cup {Without(e1, f) : f \in EntryFields}

RECURSIVE CountEntries(_)
CountEntries(pages) ==
    IF pages = <<>> THEN 0 ELSE Len(Head(pages).data) + CountEntries(Tail(pages))

WsIdSeqs == BoundedSeq(WsIds, MaxWs)

\* arguments tried for team_id
TeamIdArgs ==
    {PyNone} \cup {PyList(s) : s \in WsIdSeqs} \cup {PyTuple(s) : s \in WsIdSeqs}
    \cup {PyInt(0), PyInt(11), PyBool(FALSE), PyBool(TRUE),
          PyStr(0), PyStr(2), PyDict(0), PyDict(1)}

Usernames == {alice, Alice}

\* arguments tried for team_id in user_worktime and user_tasks
AggregationTeamIdArgs == {PyNone, PyInt(11)} \cup {PyList(s) : s \in WsIdSeqs}

\* arguments tried for a direct call of request_time_entries_for_workspace_ids
TimeEntriesTeamIdArgs ==
    {PyNone} \cup {PyList(s) : s \in WsIdSeqs} \cup {PyTuple(s) : s \in WsIdSeqs}

(***************************************************************************)
(* Exceptions and requests.                                                *)
(***************************************************************************)
NoError == [exc |-> "none", why |-> "none", type |-> "none"]
Raise(exc, why) == [exc |-> exc, why |-> why, type |-> "none"]
RaiseAbout(exc, why, v) == [exc |-> exc, why |-> why, type |-> v.type]

\* GET team/
TeamsRequest == [endpoint |-> "team/", team |-> 0]
\* GET team/<id>/time_entries
TimeEntriesRequest(team) == [endpoint |-> "team/time_entries", team |-> team]

NoResult == <<>>

(***************************************************************************)
(* request_workspace_ids                                                   *)
(***************************************************************************)
\* the ids collected in reverse (a faulty collection)
TeamIdsOf_reversed(ws) ==
    [i \in DOMAIN ws.teams |-> ws.teams[Len(ws.teams) + 1 - i].id]

\* teams = []; for team in workspaces["teams"]: teams.append(team["id"])
TeamIdsOf(ws) == [i \in DOMAIN ws.teams |-> ws.teams[i].id]

\* where the caller continues once request_workspace_ids has returned
AfterWorkspaceIds ==
    CASE op = "request_workspace_ids" -> "returned"
      [] op = "user_worktime" -> "request_time_entries"
      [] op = "user_tasks" -> "resolve_assignee"

RequestWorkspaceIds ==
    /\ pc = "request_workspace_ids"
    /\ IF ~Truthy(team_id)
       THEN \E ws \in TeamsResponses :
              /\ requests' = Append(requests, TeamsRequest)
              \* a local of this method: gone once it has returned to a caller
              /\ workspaces' = IF op = "request_workspace_ids" \/ ws.teams = <<>>
                               THEN ws ELSE NoTeamsResponse
              /\ IF ws.teams = <<>>
                 THEN /\ pc' = "raised"
                      /\ err' = Raise("ValueError", "no_workspaces")
                      /\ UNCHANGED <<teams, result>>
                 ELSE /\ teams' = PyList(TeamIdsOf(ws))
                      /\ pc' = AfterWorkspaceIds
                      /\ result' = IF op = "request_workspace_ids"
                                   THEN PyList(TeamIdsOf(ws)) ELSE result
                      /\ err' = err
       ELSE IF IsListOrTuple(team_id)
       THEN /\ teams' = team_id
            /\ pc' = AfterWorkspaceIds
            /\ result' = IF op = "request_workspace_ids" THEN team_id ELSE result
            /\ UNCHANGED <<requests, workspaces, err>>
       ELSE /\ pc' = "raised"
            /\ err' = RaiseAbout("TypeError", "team_id_type", team_id)
            /\ UNCHANGED <<requests, workspaces, teams, result>>
    /\ UNCHANGED <<impl, op, team_id, username, only_billable, assignee,
                   is_user_in_workspace, members_seen, responses, last_response, fmt_in, fmt_out, hvars, ivars, cvars>>

(***************************************************************************)
(* user_tasks: the user id of the member called username                   *)
(***************************************************************************)
\* class-based copy: username.casefold() == user["user"]["username"].casefold()
UsernameMatches_oop(name, member) ==
    Casefold(name) = Casefold(member.user.username)

\* earlier copy: username == user["user"]["username"]
UsernameMatches_legacy(name, member) == name = member.user.username

\* the comparison made by the copy of the code that runs
UsernameMatches(name, member) ==
    IF impl = "legacy"
    THEN UsernameMatches_legacy(name, member)
    ELSE UsernameMatches_oop(name, member)

\* for user in team["members"]: if <match>: ...; break
\* the position of the first matching member, 0 when there is none
RECURSIVE FirstMatch(_, _, _)
FirstMatch(members, name, i) ==
    IF i > Len(members) THEN 0
    ELSE IF UsernameMatches(name, members[i]) THEN i
    ELSE FirstMatch(members, name, i + 1)

\* for team in workspaces_data["teams"]: is_user_in_workspace = False; ...
\* st is the pair of locals [flag, assignee] before team number i
RECURSIVE ScanTeams(_, _, _, _)
ScanTeams(ts, name, i, st) ==
    IF i > Len(ts) THEN st
    ELSE LET m == FirstMatch(ts[i].members, name, 1)
         IN  ScanTeams(ts, name, i + 1,
                 IF m = 0
                 THEN [flag |-> "false", assignee |-> st.assignee]
                 ELSE [flag |-> "true", assignee |-> ts[i].members[m].user.id])

\* the users listed as members of any workspace of a response
UsersOf(ws) ==
    UNION {{ws.teams[i].members[j].user : j \in DOMAIN ws.teams[i].members} :
             i \in DOMAIN ws.teams}

ResolveAssignee ==
    /\ pc = "resolve_assignee"
    /\ \E ws \in TeamsResponses :
         LET st == ScanTeams(ws.teams, username, 1,
                             [flag |-> "unbound", assignee |-> 0])
         IN  /\ requests' = Append(requests, TeamsRequest)
             \* the response is not read again once the user is resolved
             /\ workspaces' = IF st.flag = "true" THEN NoTeamsResponse ELSE ws
             /\ members_seen' = UsersOf(ws)
             /\ is_user_in_workspace' = st.flag
             /\ assignee' = st.assignee
             /\ CASE st.flag = "unbound" ->
                       /\ pc' = "raised"
                       /\ err' = Raise("UnboundLocalError", "is_user_in_workspace")
                  [] st.flag = "false" ->
                       /\ pc' = "raised"
                       /\ err' = Raise("ValueError", "user_not_found")
                  [] st.flag = "true" ->
                       /\ pc' = "request_time_entries"
                       /\ err' = err
    \* team_id is not read again by user_tasks
    /\ team_id' = PyNone
    /\ UNCHANGED <<impl, op, username, only_billable, teams, responses,
                   last_response, result, fmt_in, fmt_out, hvars, ivars, cvars>>

(***************************************************************************)
(* request_time_entries_for_workspace_ids                                  *)
(***************************************************************************)
\* the workspaces taken from the far end of the list (a faulty loop)
NextTeam_from_the_end(ids, done) == ids[Len(ids) - done]

\* for team in team_id: the workspace requested after `done` requests
NextTeam(ids, done) == ids[done + 1]

\* the exception for an empty team_id: AttributeError in the class-based
\* copy, ValueError in the earlier one
EmptyTeamIdError == IF impl = "legacy" THEN "ValueError" ELSE "AttributeError"

\* if not team_id: raise ...
TimeEntriesRejectEmpty ==
    /\ pc = "request_time_entries"
    /\ ~Truthy(teams)
    /\ pc' = "raised"
    /\ err' = Raise(EmptyTeamIdError, "empty_team_id")
    /\ team_id' = PyNone
    /\ workspaces' = NoTeamsResponse
    /\ UNCHANGED <<impl, op, username, only_billable, teams, assignee,
                   is_user_in_workspace, members_seen, requests, responses, last_response,
                   result, fmt_in, fmt_out, hvars, ivars, cvars>>

\* one turn of the loop: one get_time_entries request and its response
GetTimeEntriesOf(entries) ==
    /\ pc = "request_time_entries"
    /\ Truthy(teams)
    /\ Len(responses) < Len(teams.items)
    /\ \E r \in PageResponsesOf(entries, MaxEntries - CountEntries(responses)) :
         /\ requests' = Append(requests,
                               TimeEntriesRequest(NextTeam(teams.items, Len(responses))))
         /\ last_response' = r
         /\ IF ~r.has_data
            THEN /\ pc' = "raised"
                 /\ err' = Raise("ReferenceError", "team_not_authorized")
                 /\ UNCHANGED responses
            ELSE /\ responses' = Append(responses, r)
                 /\ UNCHANGED <<pc, err>>
    \* locals of the callers that are not read again
    /\ team_id' = PyNone
    /\ workspaces' = NoTeamsResponse
    /\ UNCHANGED <<impl, op, username, only_billable, teams, assignee,
                   is_user_in_workspace, members_seen, result, fmt_in, fmt_out, hvars, ivars, cvars>>

\* the remote holds whole entries
GetTimeEntries == GetTimeEntriesOf(TimeEntries)

\* the remote holds entries with a key missing
GetPartialEntries == GetTimeEntriesOf(PartialEntries)

\* return responses, to a direct caller
ReturnTimeEntries ==
    /\ pc = "request_time_entries"
    /\ op = "request_time_entries_for_workspace_ids"
    /\ Truthy(teams)
    /\ Len(responses) = Len(teams.items)
    /\ pc' = "returned"
    /\ result' = responses
    /\ UNCHANGED <<impl, op, team_id, username, only_billable, workspaces, teams,
                   assignee, is_user_in_workspace, members_seen, requests, responses,
                   last_response, err, fmt_in, fmt_out, hvars, ivars, cvars>>

(***************************************************************************)
(* user_worktime: the fold of the pages into a duration per username       *)
(***************************************************************************)
EmptyDict == [u \in {} |-> 0]

\* the duration counted whatever the billable flag (a faulty count)
CountedDuration_ignoring_billable(task, billable_only) == PyIntOfText(task.duration)

\* int(task["duration"]) if task["billable"] else 0, under only_billable;
\* int(task["duration"]) otherwise
CountedDuration(task, billable_only) ==
    IF billable_only
    THEN (IF task.billable THEN PyIntOfText(task.duration) ELSE 0)
    ELSE PyIntOfText(task.duration)

\* the total overwritten instead of increased (a faulty accumulation)
AddWorktime_overwriting(d, user, ms) ==
    IF user \in DOMAIN d THEN [d EXCEPT ![user] = ms] ELSE d @@ (user :> ms)

\* the total left at the first entry of the user (a faulty accumulation)
AddWorktime_first_kept(d, user, ms) ==
    IF user \in DOMAIN d THEN d ELSE d @@ (user :> ms)

\* duration_per_user[username] += ms, or = ms at the first entry of the user
AddWorktime(d, user, ms) ==
    IF user \in DOMAIN d THEN [d EXCEPT ![user] = @ + ms] ELSE d @@ (user :> ms)

\* for task in response["data"]: ...
RECURSIVE WorktimeOfPage(_, _, _)
WorktimeOfPage(data, d, billable_only) ==
    IF data = <<>> THEN d
    ELSE WorktimeOfPage(Tail(data),
                        AddWorktime(d, Head(data).user.username,
                                    CountedDuration(Head(data), billable_only)),
                        billable_only)

\* for response in time_entry_responses: ...
RECURSIVE WorktimeOfPages(_, _, _)
WorktimeOfPages(pages, d, billable_only) ==
    IF pages = <<>> THEN d
    ELSE WorktimeOfPages(Tail(pages),
                         WorktimeOfPage(Head(pages).data, d, billable_only),
                         billable_only)

\* the dictionary user_worktime returns
DurationPerUser(pages, billable_only) ==
    LET d == WorktimeOfPages(pages, EmptyDict, billable_only)
    IN  [u \in DOMAIN d |-> FormatDuration(d[u])]

\* every key of an entry looked up before the fold (a faulty, stricter fold)
KeysReadByWorktime_all(task, billable_only) ==
    <<"user", "username", "billable", "duration", "task">>

\* the keys the loop body looks up in an entry, in the order it does:
\* task["user"]["username"], then task["billable"] under only_billable and
\* task["duration"] unless the entry counts as 0
KeysReadByWorktime(task, billable_only) ==
    <<"user", "username">>
    \o (IF billable_only
        THEN <<"billable">>
             \o (IF "billable" \in DOMAIN task /\ task.billable
                 THEN <<"duration">> ELSE <<>>)
        ELSE <<"duration">>)

\* is the key there: "username" is a key of task["user"]
HasKey(task, key) ==
    IF key = "username"
    THEN "user" \in DOMAIN task /\ "username" \in DOMAIN task.user
    ELSE key \in DOMAIN task

\* the KeyError of the first key of keys that the entry lacks
RECURSIVE FirstKeyError(_, _)
FirstKeyError(task, keys) ==
    IF keys = <<>> THEN NoError
    ELSE IF ~HasKey(task, Head(keys)) THEN Raise("KeyError", Head(keys))
    ELSE FirstKeyError(task, Tail(keys))

\* all entries of the pages, in the order the loops visit them
RECURSIVE EntriesOf(_)
EntriesOf(pages) ==
    IF pages = <<>> THEN <<>> ELSE Head(pages).data \o EntriesOf(Tail(pages))

\* the exception that ends the loops of user_worktime: that of the first
\* entry with a key missing that the body looks up
RECURSIVE WorktimeErrorOf(_, _)
WorktimeErrorOf(entries, billable_only) ==
    IF entries = <<>> THEN NoError
    ELSE LET e == FirstKeyError(Head(entries),
                                KeysReadByWorktime(Head(entries), billable_only))
         IN  IF e # NoError THEN e
             ELSE WorktimeErrorOf(Tail(entries), billable_only)

UserWorktimeReturn ==
    /\ pc = "request_time_entries"
    /\ op = "user_worktime"
    /\ Len(responses) = Len(teams.items)
    /\ LET e == WorktimeErrorOf(EntriesOf(responses), only_billable)
       IN  IF e = NoError
           THEN /\ pc' = "returned"
                /\ result' = DurationPerUser(responses, only_billable)
                /\ err' = err
           ELSE /\ pc' = "raised"
                /\ err' = e
                /\ result' = result
    /\ UNCHANGED <<impl, op, team_id, username, only_billable, workspaces, teams,
                   assignee, is_user_in_workspace, members_seen, requests, responses,
                   last_response, fmt_in, fmt_out, hvars, ivars, cvars>>

(***************************************************************************)
(* user_tasks: the fold of the pages into one record per task              *)
(***************************************************************************)
SeqToSet(s) == {s[i] : i \in DOMAIN s}

\* the record of a task that is met for the first time
NewTask(task) ==
    [task_id |-> task.task.id,
     \* set from task["task"]["custom_id"], then overwritten with
     \* task["custom_items"]["id"] if "custom_items" in task.keys() else None
     custom_id |-> IF "custom_items" \in DOMAIN task
                   THEN task.custom_items.id ELSE NoneValue,
     task_name |-> task.task.name,
     \* int(task["duration"]) if "duration" in task.keys() else None
     duration |-> IF "duration" \in DOMAIN task
                  THEN PyIntOfText(task.duration) ELSE NoneValue]

\* every entry appended as a new record (a faulty fold)
AddTaskEntry_always_new(st, task) ==
    [task_ids |-> Append(st.task_ids, task.task.id),
     task_entry_ids |-> Append(st.task_entry_ids, task.id),
     tasks |-> Append(st.tasks, NewTask(task)),
     without_duration |-> st.without_duration,
     raised |-> st.raised]

\* element["duration"] += int(task["duration"]): the right-hand side is
\* computed first (KeyError without the key), then added (TypeError to None)
IncreaseError(st, task) ==
    IF "duration" \notin DOMAIN task THEN Raise("KeyError", "duration")
    ELSE IF task.task.id \in st.without_duration
    THEN Raise("TypeError", "none_duration")
    ELSE NoError

\* the body of the loop over the entries of a page; st holds the locals
\* task_ids, task_entry_ids and user_tasks["tasks"], the ids of the records
\* whose duration is None, and the exception that has ended the loop
AddTaskEntry(st, task) ==
    IF st.raised # NoError THEN st
    \* task["task"]["id"] in task_ids
    ELSE IF "task" \notin DOMAIN task
    THEN [st EXCEPT !.raised = Raise("KeyError", "task")]
    ELSE IF task.task.id \in SeqToSet(st.task_ids)
    THEN LET e == IncreaseError(st, task)
         IN  IF e # NoError THEN [st EXCEPT !.raised = e]
             ELSE [task_ids |-> st.task_ids,
                   task_entry_ids |-> Append(st.task_entry_ids, task.id),
                   tasks |-> [i \in DOMAIN st.tasks |->
                                IF st.tasks[i].task_id = task.task.id
                                THEN [st.tasks[i] EXCEPT
                                        !.duration = @ + PyIntOfText(task.duration)]
                                ELSE st.tasks[i]],
                   without_duration |-> st.without_duration,
                   raised |-> NoError]
    ELSE [task_ids |-> Append(st.task_ids, task.task.id),
          task_entry_ids |-> Append(st.task_entry_ids, task.id),
          tasks |-> Append(st.tasks, NewTask(task)),
          without_duration |-> IF "duration" \in DOMAIN task
                               THEN st.without_duration
                               ELSE st.without_duration \cup {task.task.id},
          raised |-> NoError]

RECURSIVE TasksOfPage(_, _)
TasksOfPage(data, st) ==
    IF data = <<>> THEN st
    ELSE TasksOfPage(Tail(data), AddTaskEntry(st, Head(data)))

\* for response in time_entry_responses: if response["data"]: ...
RECURSIVE TasksOfPages(_, _)
TasksOfPages(pages, st) ==
    IF pages = <<>> THEN st
    ELSE TasksOfPages(Tail(pages),
                      IF Head(pages).data # <<>>
                      THEN TasksOfPage(Head(pages).data, st)
                      ELSE st)

\* the locals after the loops
FoldedTasks(pages) ==
    TasksOfPages(pages, [task_ids |-> <<>>, task_entry_ids |-> <<>>,
                         tasks |-> <<>>, without_duration |-> {},
                         raised |-> NoError])

\* the exception of user_tasks after the pages were fetched: that of the
\* loops, or the TypeError of int(task["duration"]) on a record without one
UserTasksErrorOf(pages) ==
    LET st == FoldedTasks(pages)
    IN  IF st.raised # NoError THEN st.raised
        ELSE IF st.without_duration # {}
        THEN Raise("TypeError", "none_duration")
        ELSE NoError

\* the dictionary user_tasks returns
UserTasks(name, user_id, pages) ==
    LET st == FoldedTasks(pages)
    IN  [username |-> name,
         user_id |-> user_id,
         tasks |-> [i \in DOMAIN st.tasks |->
                      [st.tasks[i] EXCEPT !.duration = FormatDuration(@)]]]

UserTasksReturn ==
    /\ pc = "request_time_entries"
    /\ op = "user_tasks"
    /\ Len(responses) = Len(teams.items)
    /\ LET e == UserTasksErrorOf(responses)
       IN  IF e = NoError
           THEN /\ pc' = "returned"
                /\ result' = UserTasks(username, assignee, responses)
                /\ err' = err
           ELSE /\ pc' = "raised"
                /\ err' = e
                /\ result' = result
    /\ UNCHANGED <<impl, op, team_id, username, only_billable, workspaces, teams,
                   assignee, is_user_in_workspace, members_seen, requests, responses,
                   last_response, fmt_in, fmt_out, hvars, ivars, cvars>>

(***************************************************************************)
(* The calls.                                                              *)
(***************************************************************************)
Call_request_workspace_ids(v) ==
    /\ pc = "idle"
    /\ op' = "request_workspace_ids"
    /\ pc' = "request_workspace_ids"
    /\ team_id' = v
    /\ UNCHANGED <<impl, username, only_billable, workspaces, teams, assignee,
                   is_user_in_workspace, members_seen, requests, responses, last_response,
                   result, err, fmt_in, fmt_out, hvars, ivars, cvars>>

Call_request_time_entries_for_workspace_ids(v) ==
    /\ pc = "idle"
    /\ op' = "request_time_entries_for_workspace_ids"
    /\ pc' = "request_time_entries"
    /\ teams' = v
    /\ UNCHANGED <<impl, team_id, username, only_billable, workspaces, assignee,
                   is_user_in_workspace, members_seen, requests, responses, last_response,
                   result, err, fmt_in, fmt_out, hvars, ivars, cvars>>

Call_user_worktime(v, billable_only) ==
    /\ pc = "idle"
    /\ op' = "user_worktime"
    /\ pc' = "request_workspace_ids"
    /\ team_id' = v
    /\ only_billable' = billable_only
    /\ UNCHANGED <<impl, username, workspaces, teams, assignee,
                   is_user_in_workspace, members_seen, requests, responses, last_response,
                   result, err, fmt_in, fmt_out, hvars, ivars, cvars>>

Call_user_tasks(name, v) ==
    /\ pc = "idle"
    /\ op' = "user_tasks"
    /\ pc' = "request_workspace_ids"
    /\ username' = name
    /\ team_id' = v
    /\ UNCHANGED <<impl, only_billable, workspaces, teams, assignee,
                   is_user_in_workspace, members_seen, requests, responses, last_response,
                   result, err, fmt_in, fmt_out, hvars, ivars, cvars>>

Impls == {"oop", "legacy"}

Init ==
    /\ impl \in Impls
    /\ op = "none"
    /\ pc = "idle"
    /\ team_id = PyNone
    /\ username = <<>>
    /\ only_billable = FALSE
    /\ workspaces = NoTeamsResponse
    /\ teams = PyNone
    /\ assignee = 0
    /\ is_user_in_workspace = "unbound"
    /\ members_seen = {}
    /\ requests = <<>>
    /\ responses = <<>>
    /\ last_response = NoData
    /\ result = NoResult
    /\ err = NoError
    /\ fmt_in = 0
    /\ fmt_out = <<>>
    /\ HandlersIdle
    /\ InstanceIdle
    /\ ChecklistIdle

Next ==
    \/ \E v \in TeamIdArgs : Call_request_workspace_ids(v)
    \/ \E v \in TimeEntriesTeamIdArgs : Call_request_time_entries_for_workspace_ids(v)
    \/ \E v \in AggregationTeamIdArgs, b \in BOOLEAN : Call_user_worktime(v, b)
    \/ \E name \in Usernames, v \in AggregationTeamIdArgs : Call_user_tasks(name, v)
    \/ RequestWorkspaceIds
    \/ ResolveAssignee
    \/ TimeEntriesRejectEmpty
    \/ GetTimeEntries
    \/ ReturnTimeEntries
    \/ UserWorktimeReturn
    \/ UserTasksReturn

Spec == Init /\ [][Next]_vars

(***************************************************************************)
(* user_worktime and user_tasks over pages whose entries may lack a key.   *)
(***************************************************************************)
\* the workspaces are passed by the caller
PartialTeamIdArgs == {PyList(s) : s \in WsIdSeqs \ {<<>>}}

NextPartial ==
    \/ \E v \in PartialTeamIdArgs, b \in BOOLEAN : Call_user_worktime(v, b)
    \/ \E v \in PartialTeamIdArgs : Call_user_tasks(alice, v)
    \/ RequestWorkspaceIds
    \/ ResolveAssignee
    \/ GetPartialEntries
    \/ UserWorktimeReturn
    \/ UserTasksReturn

SpecPartial == Init /\ [][NextPartial]_vars

(***************************************************************************)
(* The rendering of a total on its own, over a range of totals.            *)
(***************************************************************************)
\* parts of a day, in milliseconds, added to a whole number of days
DayParts == {0, 1, 999, 1000, 1500, 59999, 60000, 600000, 1500000, 3599999,
             3600000, 7200000, 36000000, 86398500, 86399000, 86399999}

FormatInputs == {d * MsPerDay + r : d \in (0 - MaxDays)..MaxDays, r \in DayParts}

InitFormat ==
    /\ impl \in Impls
    /\ op = "format"
    /\ pc = "format"
    /\ team_id = PyNone
    /\ username = <<>>
    /\ only_billable = FALSE
    /\ workspaces = NoTeamsResponse
    /\ teams = PyNone
    /\ assignee = 0
    /\ is_user_in_workspace = "unbound"
    /\ members_seen = {}
    /\ requests = <<>>
    /\ responses = <<>>
    /\ last_response = NoData
    /\ result = NoResult
    /\ err = NoError
    /\ fmt_in \in FormatInputs
    /\ fmt_out = <<>>
    /\ HandlersIdle
    /\ InstanceIdle
    /\ ChecklistIdle

Format ==
    /\ pc = "format"
    /\ fmt_out' = FormatDuration(fmt_in)
    /\ pc' = "formatted"
    /\ UNCHANGED <<impl, op, team_id, username, only_billable, workspaces, teams,
                   assignee, is_user_in_workspace, members_seen, requests, responses,
                   last_response, result, err, fmt_in, hvars, ivars, cvars>>

NextFormat == Format

SpecFormat == InitFormat /\ [][NextFormat]_vars

(***************************************************************************)
(* Vocabulary of the properties.                                           *)
(***************************************************************************)
\* the workspaces of the get_time_entries requests issued so far, in order
RECURSIVE TimeEntryTeams(_)
TimeEntryTeams(reqs) ==
    IF reqs = <<>> THEN <<>>
    ELSE IF Head(reqs).endpoint = "team/time_entries"
         THEN <<Head(reqs).team>> \o TimeEntryTeams(Tail(reqs))
         ELSE TimeEntryTeams(Tail(reqs))

\* the positions <<page, index>> of the time entries that were fetched
EntryPositions ==
    UNION {{<<p, i>> : i \in DOMAIN responses[p].data} : p \in DOMAIN responses}

EntryAt(pos) == responses[pos[1]].data[pos[2]]

RECURSIVE SumFn(_)
SumFn(f) ==
    IF DOMAIN f = {} THEN 0
    ELSE LET x == CHOOSE x \in DOMAIN f : TRUE
         IN  f[x] + SumFn([y \in DOMAIN f \ {x} |-> f[y]])

\* the milliseconds of user u over all fetched entries, an entry counting as
\* zero when only billable time is asked for and the entry is not billable
WorktimeOf(u) ==
    SumFn([pos \in {q \in EntryPositions : EntryAt(q).user.username = u} |->
             IF only_billable /\ ~EntryAt(pos).billable
             THEN 0 ELSE PyIntOfText(EntryAt(pos).duration)])

\* the milliseconds of all fetched entries that refer to task t
TaskTimeOf(t) ==
    SumFn([pos \in {q \in EntryPositions : EntryAt(q).task.id = t} |->
             PyIntOfText(EntryAt(pos).duration)])

Entry1 == CHOOSE e \in TimeEntries : e.id = "e1"
Entry2 == CHOOSE e \in TimeEntries : e.id = "e2"
Entry3 == CHOOSE e \in TimeEntries : e.id = "e3"

PageOf(data) == [has_data |-> TRUE, data |-> data]

(***************************************************************************)
(* C1. request_time_entries_for_workspace_ids issues one get_time_entries  *)
(* request per workspace id, in the order of the sequence it is given and  *)
(* one after another: the requests issued so far are always a prefix of    *)
(* that sequence, and every response but possibly the last one had "data". *)
(* When a response lacks "data" the call raises at once: that request is   *)
(* the last one, and nothing is returned.  When the call returns, every    *)
(* workspace has been asked and every page is in the result.               *)
(***************************************************************************)
C1_SequentialFailFast ==
    LET asked == TimeEntryTeams(requests)
    IN  /\ Len(asked) <= Len(teams.items)
        /\ asked = SubSeq(teams.items, 1, Len(asked))
        /\ \A i \in DOMAIN responses : responses[i].has_data
        /\ (err.why = "team_not_authorized") =>
              /\ pc = "raised"
              /\ ~last_response.has_data
              /\ Len(asked) = Len(responses) + 1
              /\ result = NoResult
        /\ (err.why # "team_not_authorized") => Len(asked) = Len(responses)
        /\ (pc = "returned" /\ op # "request_workspace_ids") =>
              Len(asked) = Len(teams.items)
        /\ (pc = "returned" /\ op = "request_time_entries_for_workspace_ids") =>
              result = responses

\* the first of two workspaces answered without "data": the call has raised
\* and the second workspace was never asked
C1_Witness ==
    /\ op = "request_time_entries_for_workspace_ids"
    /\ pc = "raised"
    /\ err.why = "team_not_authorized"
    /\ teams.items = <<12, 11>>
    /\ TimeEntryTeams(requests) = <<12>>

(***************************************************************************)
(* C2. user_worktime returns a dictionary whose keys are exactly the       *)
(* usernames that occur in the fetched time entries, and whose value for a *)
(* user is the rendering of the sum, over all pages, of that user's entry  *)
(* durations, a non-billable entry counting as zero under only_billable.   *)
(***************************************************************************)
C2_WorktimePerUser ==
    (pc = "returned" /\ op = "user_worktime") =>
        /\ DOMAIN result = {EntryAt(pos).user.username : pos \in EntryPositions}
        /\ \A u \in DOMAIN result : result[u] = FormatDuration(WorktimeOf(u))

\* only billable time was asked for and bob has a non-billable entry of
\* 10 minutes and a billable one of 15 minutes: bob gets 0:15:00
C2_Witness ==
    /\ pc = "returned"
    /\ op = "user_worktime"
    /\ only_billable
    /\ {EntryAt(pos) : pos \in EntryPositions} = {Entry2, Entry3}
    /\ Len(responses) = 2
    /\ result = (bob :> <<"0", ":", "1", "5", ":", "0", "0">>)

(***************************************************************************)
(* C3. user_tasks returns one task record per distinct task id of the      *)
(* fetched entries, whatever workspace they came from, and the duration of *)
(* a record is the rendering of the sum of the durations of all entries    *)
(* that refer to the task; two entries of 600,000 ms and 900,000 ms on one *)
(* task give one record with duration "0:25:00".                           *)
(***************************************************************************)
C3_OneRecordPerTask ==
    (pc = "returned" /\ op = "user_tasks") =>
        /\ \A i, j \in DOMAIN result.tasks :
              result.tasks[i].task_id = result.tasks[j].task_id => i = j
        /\ {result.tasks[i].task_id : i \in DOMAIN result.tasks}
              = {EntryAt(pos).task.id : pos \in EntryPositions}
        /\ \A i \in DOMAIN result.tasks :
              result.tasks[i].duration
                 = FormatDuration(TaskTimeOf(result.tasks[i].task_id))
        /\ (Cardinality(EntryPositions) = 2
              /\ {EntryAt(pos) : pos \in EntryPositions} = {Entry2, Entry3}) =>
              /\ Len(result.tasks) = 1
              /\ result.tasks[1].duration = <<"0", ":", "2", "5", ":", "0", "0">>

\* the two entries of the example came from two workspaces
C3_Witness ==
    /\ pc = "returned"
    /\ op = "user_tasks"
    /\ responses = <<PageOf(<<Entry2>>), PageOf(<<Entry3>>)>>
    /\ Len(result.tasks) = 1
    /\ result.tasks[1].task_id = "t2"
    /\ result.tasks[1].duration = <<"0", ":", "2", "5", ":", "0", "0">>

(***************************************************************************)
(* C4. user_tasks fails with the user-not-found error exactly when no      *)
(* member of any workspace of the authorized-workspaces response matches   *)
(* the requested username; when a member of some workspace matches (of the *)
(* first or of the last workspace alike) the call goes on to fetch time    *)
(* entries with that member's id as assignee.  "Matches" is the comparison *)
(* the running copy of the code makes.                                     *)
(***************************************************************************)
\* user_tasks has scanned the response for the username
AssigneeScanned ==
    /\ op = "user_tasks"
    /\ \/ is_user_in_workspace # "unbound"
       \/ err.why = "is_user_in_workspace"

MatchingUsers ==
    {u \in members_seen : UsernameMatches(username, [user |-> u])}

C4_NotFoundIffNoMemberMatches ==
    AssigneeScanned =>
        /\ (pc = "raised" /\ err.why = "user_not_found") <=> (MatchingUsers = {})
        /\ (MatchingUsers # {}) =>
              /\ err.why \notin {"user_not_found", "is_user_in_workspace"}
              /\ assignee \in {u.id : u \in MatchingUsers}

(***************************************************************************)
(* C5. user_tasks compares usernames without regard to letter case: when a *)
(* member's username equals the requested one up to letter case, the call  *)
(* does not raise user-not-found and the assignee is that member's id.     *)
(***************************************************************************)
UsersEqualUpToCase ==
    {u \in members_seen : Casefold(u.username) = Casefold(username)}

C5_CaseInsensitiveMatch ==
    (AssigneeScanned /\ UsersEqualUpToCase # {}) =>
        /\ ~(pc = "raised" /\ err.why = "user_not_found")
        /\ assignee \in {u.id : u \in UsersEqualUpToCase}

(***************************************************************************)
(* C6. Two pages, one per workspace, each with the one entry of user       *)
(* "alice" of 3,600,000 ms, billable: user_worktime(only_billable=false).  *)
(* As claimed, the result is {"alice": "1:00:00"}.                         *)
(***************************************************************************)
TwoAlicePages ==
    /\ pc = "returned"
    /\ op = "user_worktime"
    /\ ~only_billable
    /\ teams.items = <<11, 12>>
    /\ responses = <<PageOf(<<Entry1>>), PageOf(<<Entry1>>)>>

C6_AliceOneHour ==
    TwoAlicePages => result = (alice :> <<"1", ":", "0", "0", ":", "0", "0">>)

\* C6 as amended: the two hours add up, the result is {"alice": "2:00:00"}.
C6_AliceTwoHours ==
    TwoAlicePages => result = (alice :> <<"2", ":", "0", "0", ":", "0", "0">>)

C6_Witness ==
    /\ TwoAlicePages
    /\ TimeEntryTeams(requests) = <<11, 12>>
    /\ DOMAIN result = {alice}

(***************************************************************************)
(* C7. The rendering of an accumulated total of milliseconds.              *)
(***************************************************************************)
IsDigit(c) == \E i \in DOMAIN DigitChars : DigitChars[i] = c
AllDigits(s) == s # <<>> /\ \A i \in DOMAIN s : IsDigit(s[i])

\* s reads H:MM:SS: hours of one digit or more, two-digit minutes and seconds
IsHMMSS(s) ==
    /\ Len(s) >= 7
    /\ AllDigits(SubSeq(s, 1, Len(s) - 6))
    /\ s[Len(s) - 5] = ":"
    /\ AllDigits(SubSeq(s, Len(s) - 4, Len(s) - 3))
    /\ s[Len(s) - 2] = ":"
    /\ AllDigits(SubSeq(s, Len(s) - 1, Len(s)))
    /\ ParseNat(SubSeq(s, Len(s) - 4, Len(s) - 3)) < 60
    /\ ParseNat(SubSeq(s, Len(s) - 1, Len(s))) < 60

\* the seconds that a text of the form H:MM:SS denotes
SecondsOfHMMSS(s) ==
    3600 * ParseNat(SubSeq(s, 1, Len(s) - 6))
    + 60 * ParseNat(SubSeq(s, Len(s) - 4, Len(s) - 3))
    + ParseNat(SubSeq(s, Len(s) - 1, Len(s)))

\* ms / 1000 with the fractional part discarded
WholeSeconds(ms) == IF ms < 0 THEN 0 - ((0 - ms) \div 1000) ELSE ms \div 1000

\* C7 as claimed: every total, also one of 24 hours or more and a negative
\* one, is rendered as H:MM:SS denoting the total in whole seconds.
C7_AlwaysHMMSS ==
    (pc = "formatted") =>
        /\ IsHMMSS(fmt_out)
        /\ SecondsOfHMMSS(fmt_out) = WholeSeconds(fmt_in)

\* the position of the first "," of s, 0 when there is none
RECURSIVE CommaAt(_, _)
CommaAt(s, i) ==
    IF i > Len(s) THEN 0 ELSE IF s[i] = "," THEN i ELSE CommaAt(s, i + 1)

\* s reads "D day" or "D days" for the number D, "day" exactly when |D| = 1
IsDayCount(s, D) ==
    LET unit == IF D = 1 \/ D = 0 - 1
                THEN <<" ", "d", "a", "y">> ELSE <<" ", "d", "a", "y", "s">>
        number == SubSeq(s, 1, Len(s) - Len(unit))
        digits == IF D < 0 THEN Tail(number) ELSE number
    IN  /\ Len(s) > Len(unit)
        /\ SubSeq(s, Len(s) - Len(unit) + 1, Len(s)) = unit
        /\ (D < 0) => Head(number) = "-"
        /\ AllDigits(digits)
        /\ ParseNat(digits) = (IF D < 0 THEN 0 - D ELSE D)

\* C7 as amended.  With D the whole days of the total (rounded down, so
\* negative for a negative total) and r the milliseconds left over, the text
\* is H:MM:SS for floor(r / 1000) seconds, H below 24, and when D is not 0 it
\* is preceded by "D day, " or "D days, ".
C7_DaysThenHMMSS ==
    (pc = "formatted") =>
        LET D == fmt_in \div MsPerDay
            r == fmt_in - D * MsPerDay
            k == CommaAt(fmt_out, 1)
            clock == IF k = 0 THEN fmt_out ELSE SubSeq(fmt_out, k + 2, Len(fmt_out))
        IN  /\ (D = 0) <=> (k = 0)
            /\ IsHMMSS(clock)
            /\ SecondsOfHMMSS(clock) = r \div 1000
            /\ SecondsOfHMMSS(clock) < 24 * 3600
            /\ (k # 0) =>
                  /\ IsDayCount(SubSeq(fmt_out, 1, k - 1), D)
                  /\ fmt_out[k + 1] = " "

\* a running timer of one and a half seconds
C7_Witness ==
    /\ pc = "formatted"
    /\ fmt_in = 0 - 1500
    /\ fmt_out = <<"-", "1", " ", "d", "a", "y", ",", " ",
                   "2", "3", ":", "5", "9", ":", "5", "8">>

(***************************************************************************)
(* C8. request_workspace_ids called without a workspace list               *)
(* (team_id=None) asks the authorized-workspaces endpoint once and returns *)
(* the ids of all workspaces of the response, in the order of the          *)
(* response; when the response holds no workspace it raises the            *)
(* workspace-not-found error, a ValueError, and returns nothing.           *)
(***************************************************************************)
C8_AllWorkspaceIdsOrNotFound ==
    (op = "request_workspace_ids" /\ team_id = PyNone
        /\ pc \in {"returned", "raised"}) =>
        /\ requests = <<TeamsRequest>>
        /\ (pc = "raised") <=> (workspaces.teams = <<>>)
        /\ (pc = "raised") =>
              /\ err.exc = "ValueError"
              /\ err.why = "no_workspaces"
              /\ result = NoResult
        /\ (pc = "returned") =>
              /\ result.type = "list"
              /\ Len(result.items) = Len(workspaces.teams)
              /\ \A i \in DOMAIN workspaces.teams :
                    result.items[i] = workspaces.teams[i].id

\* two workspaces, 12 listed before 11
C8_Witness ==
    /\ op = "request_workspace_ids"
    /\ team_id = PyNone
    /\ pc = "returned"
    /\ Len(workspaces.teams) = 2
    /\ result.items = <<12, 11>>

(***************************************************************************)
(* C9. request_workspace_ids given a list or a tuple of workspace ids,     *)
(* whichever it is, returns that very sequence and issues no request.      *)
(***************************************************************************)
C9_ListReturnedVerbatim ==
    (op = "request_workspace_ids" /\ IsListOrTuple(team_id)
        /\ pc \in {"returned", "raised"}) =>
        /\ pc = "returned"
        /\ result = team_id
        /\ requests = <<>>

(***************************************************************************)
(* C10. request_workspace_ids given a team_id that is neither None nor a   *)
(* list nor a tuple (an integer, a string, a dict, a boolean, of any       *)
(* value) raises a TypeError that names the type, and issues no request.   *)
(***************************************************************************)
C10_OtherTypesRejected ==
    (op = "request_workspace_ids"
        /\ team_id.type \notin {"NoneType", "list", "tuple"}
        /\ pc \in {"returned", "raised"}) =>
        /\ pc = "raised"
        /\ err.exc = "TypeError"
        /\ err.type = team_id.type
        /\ requests = <<>>

(***************************************************************************)
(* The parameter helpers of clickup_api/handlers.py, which the class-based *)
(* package imports, and their copies as static methods of the earlier      *)
(* single-file ClickUpAPI.  A caller makes an object (data_given), hands   *)
(* it to a helper, and may hand the same object to the helper again:       *)
(* data_obj is the object as it is now.                                    *)
(***************************************************************************)
\* most calls made with one object
MaxCalls == 2
\* longest list a caller passes to a helper
MaxListLen == 3

\* k of random.choices(..., k=8)
FillerLength == 8
\* characters of string.digits that random.choices draws in the model
DigitSample == {"0", "9"}
\* characters of string.ascii_letters + string.digits that it draws
AlnumSample == {"Z", "0"}

\* "".join(random.choices(population, k=8)): every text of k characters
Choices(population) == [1..FillerLength -> population]

\* int("".join(random.choices(string.digits, k=8)))
NumberFillers == {VInt(ParseNat(c)) : c \in Choices(DigitSample)}
\* "".join(random.choices(string.ascii_letters + string.digits, k=8))
StringFillers == {VStr(c) : c \in Choices(AlnumSample)}

\* the fillers a call can draw: numbers or strings
RandomValues(number) == IF number THEN NumberFillers ELSE StringFillers

\* what a call of a helper does: the caller's object afterwards, the value
\* returned and the exception raised
Outcome(obj, ret, e) == [obj |-> obj, returned |-> ret, err |-> e]
Returns(obj, ret) == Outcome(obj, ret, NoError)
Raises(obj, exc, why) == Outcome(obj, NoValue, Raise(exc, why))

\* len(data) == 1
HasOneElement_or_more(v) == Len(v.items) >= 1
HasOneElement(v) == Len(v.items) = 1

\* data.append(random_value)
Appended_nothing(items, r) == items
Appended(items, r) == Append(items, r)

\* check_and_adjust_list_length draws a filler for this argument
ListLengthDrawsFiller(v) == VTruthy(v) /\ IsList(v) /\ HasOneElement(v)

\* check_and_adjust_list_length(data, append_number), r being the filler
\* drawn; the list returned is the object passed in
check_and_adjust_list_length(v, r) ==
    IF VTruthy(v)
    THEN IF ~IsList(v)
         THEN Raises(v, "TypeError", "not_a_list")
         ELSE IF HasOneElement(v)
              THEN LET w == VList(Appended(v.items, r)) IN Returns(w, w)
              ELSE Returns(v, v)
    ELSE Returns(v, v)

\* the elements of the lists callers pass
ListElements == {VStr(<<"a">>), VInt(1)}
Lists == {VList(xs) : xs \in BoundedSeq(ListElements, MaxListLen)}
\* values that are not lists, falsy ones among them
NonLists ==
    {VNone, VTuple(<<>>), VTuple(<<VInt(1)>>), VTuple(<<VInt(1), VInt(2)>>),
     VStr(<<>>), VStr(<<"1", ",", " ", "3">>), VInt(0), VInt(11),
     VFloat(0), VFloat(121), VBool(FALSE), VBool(TRUE), VDict(0), VDict(1)}
ListLengthInputs == Lists \cup NonLists

\* a helper is called with the caller's object and either returns or raises
HelperStep(out, r) ==
    /\ data_obj' = out.obj
    /\ result' = out.returned
    /\ err' = out.err
    /\ pc' = IF out.err = NoError THEN "returned" ELSE "raised"
    /\ random_value' = r
    /\ calls' = calls + 1
    /\ UNCHANGED <<impl, op, team_id, username, only_billable, workspaces, teams,
                   assignee, is_user_in_workspace, members_seen, requests, responses,
                   last_response, fmt_in, fmt_out, data_given, append_number,
                   utc_offset, args, query, ivars, cvars>>

CheckAndAdjustListLength ==
    /\ op = "check_and_adjust_list_length"
    /\ calls < MaxCalls
    /\ \E r \in (IF ListLengthDrawsFiller(data_obj)
                 THEN RandomValues(append_number) ELSE {NoValue}) :
          HelperStep(check_and_adjust_list_length(data_obj, r), r)

(***************************************************************************)
(* Dates: datetime_to_unix_time_in_milliseconds and                        *)
(* date_as_string_to_unix_time_in_milliseconds.                            *)
(***************************************************************************)
\* the largest value of a C int, the type datetime.datetime parses its
\* arguments into
CIntMax == 2147483647

\* 10^e
RECURSIVE Pow10(_)
Pow10(e) == IF e = 0 THEN 1 ELSE 10 * Pow10(e - 1)

\* the integer n * 10^exp fits a C int
FitsCInt(v) ==
    \/ v.n = 0
    \/ /\ v.exp <= 9
       /\ Abs(v.n) <= CIntMax \div Pow10(v.exp)

\* the number an int or bool that fits a C int stands for
NumberOf(v) == v.n * Pow10(v.exp)

IsLeap(y) == y % 4 = 0 /\ (y % 100 # 0 \/ y % 400 = 0)
DaysInMonth(y, m) ==
    CASE m \in {4, 6, 9, 11} -> 30
      [] m = 2 -> IF IsLeap(y) THEN 29 ELSE 28
      [] OTHER -> 31
\* days before January 1st of year y, counted from 0001-01-01
DaysBeforeYear(y) ==
    365 * (y - 1) + (y - 1) \div 4 - (y - 1) \div 100 + (y - 1) \div 400
RECURSIVE DaysBeforeMonth(_, _)
DaysBeforeMonth(y, m) ==
    IF m = 1 THEN 0 ELSE DaysBeforeMonth(y, m - 1) + DaysInMonth(y, m - 1)
\* date.toordinal()
Ordinal(y, m, d) == DaysBeforeYear(y) + DaysBeforeMonth(y, m) + d

\* the i-th of the fields year, month, day, hour, minute, second; hour,
\* minute and second default to 0
Field(f, i) == IF i <= Len(f) THEN f[i] ELSE 0

\* the checks datetime.datetime makes on the values of its fields
FieldsInRange(f) ==
    /\ Field(f, 1) >= 1 /\ Field(f, 1) <= 9999
    /\ Field(f, 2) >= 1 /\ Field(f, 2) <= 12
    /\ Field(f, 3) >= 1 /\ Field(f, 3) <= DaysInMonth(Field(f, 1), Field(f, 2))
    /\ Field(f, 4) >= 0 /\ Field(f, 4) <= 23
    /\ Field(f, 5) >= 0 /\ Field(f, 5) <= 59
    /\ Field(f, 6) >= 0 /\ Field(f, 6) <= 59

\* datetime.timestamp() of a naive datetime: seconds since the epoch of the
\* local time given by its fields
Timestamp(f, offset) ==
    (Ordinal(Field(f, 1), Field(f, 2), Field(f, 3)) - Ordinal(1970, 1, 1)) * 86400
    + Field(f, 4) * 3600 + Field(f, 5) * 60 + Field(f, 6) - offset

\* int(timestamp * 1000)
Milliseconds(seconds) == IF seconds = 0 THEN VInt(0) ELSE VIntE(seconds, 3)

\* the first argument, in order, that datetime.datetime(*date) cannot parse
\* into a C int: 0 when there is none
RECURSIVE FirstUnparsed(_, _)
FirstUnparsed(items, i) ==
    IF i > Len(items) THEN 0
    ELSE IF ~IsInt(items[i]) \/ ~FitsCInt(items[i]) THEN i
    ELSE FirstUnparsed(items, i + 1)

\* datetime.datetime(*date): "ok" or the exception it raises
datetime_new(items) ==
    LET k == FirstUnparsed(items, 1)
    IN  IF k # 0
        THEN IF ~IsInt(items[k]) THEN "TypeError" ELSE "OverflowError"
        ELSE IF FieldsInRange([i \in DOMAIN items |-> NumberOf(items[i])])
             THEN "ok" ELSE "ValueError"

\* the exception of the final else branch: DateValueError in handlers.py,
\* DateDataError in the copy of clickup_api.py
DateDataErrorName == IF impl = "legacy" THEN "DateDataError" ELSE "DateValueError"

\* len(date) >= 3 and len(date) <= 6
DateLengthOk(v) == Len(v.items) >= 3 /\ Len(v.items) <= 6

\* datetime_to_unix_time_in_milliseconds(date)
datetime_to_unix_time_in_milliseconds(v, offset) ==
    IF VTruthy(v)
    THEN IF v.type = "datetime"
         THEN Returns(v, Milliseconds(Timestamp(v.items, offset)))
         ELSE IF v.type \in {"list", "tuple"} /\ DateLengthOk(v)
              THEN LET made == datetime_new(v.items)
                   IN  CASE made = "ValueError" ->
                              Raises(v, "DateSequenceError", "ValueError")
                         [] made = "TypeError" ->
                              Raises(v, "DateTypeError", "TypeError")
                         [] made = "OverflowError" ->
                              Raises(v, "OverflowError", "not_caught")
                         [] OTHER ->
                              Returns(v, Milliseconds(Timestamp(
                                  [i \in DOMAIN v.items |-> NumberOf(v.items[i])],
                                  offset)))
              ELSE Raises(v, DateDataErrorName, "not_a_date")
    ELSE Returns(v, v)

\* str.strip(): white space removed at both ends
IsSpace(c) == c \in {" ", "\t", "\n"}
RECURSIVE LStrip(_)
LStrip(t) == IF t # <<>> /\ IsSpace(Head(t)) THEN LStrip(Tail(t)) ELSE t
RECURSIVE RStrip(_)
RStrip(t) ==
    IF t # <<>> /\ IsSpace(t[Len(t)]) THEN RStrip(SubSeq(t, 1, Len(t) - 1)) ELSE t
Strip(t) == RStrip(LStrip(t))

\* position of the first c in t, 0 when there is none
RECURSIVE FindFrom(_, _, _)
FindFrom(t, c, i) ==
    IF i > Len(t) THEN 0 ELSE IF t[i] = c THEN i ELSE FindFrom(t, c, i + 1)

\* str.split(","): the texts between the commas, in order
RECURSIVE SplitCommas(_)
SplitCommas(t) ==
    LET k == FindFrom(t, ",", 1)
    IN  IF k = 0 THEN <<t>>
        ELSE <<SubSeq(t, 1, k - 1)>> \o SplitCommas(SubSeq(t, k + 1, Len(t)))

\* [str(_).strip() for _ in text.split(",")]
SplitAndStrip(t) ==
    LET parts == SplitCommas(t) IN [i \in DOMAIN parts |-> Strip(parts[i])]

\* int(text): white space around, an optional sign, digits that single
\* underscores may separate
UnsignedPart(t) ==
    IF Strip(t) # <<>> /\ Head(Strip(t)) \in {"+", "-"} THEN Tail(Strip(t)) ELSE Strip(t)
IsIntLiteral(t) ==
    LET u == UnsignedPart(t)
    IN  /\ u # <<>>
        /\ \A i \in DOMAIN u :
              \/ IsDigit(u[i])
              \/ /\ u[i] = "_"
                 /\ i > 1 /\ i < Len(u)
                 /\ IsDigit(u[i - 1]) /\ IsDigit(u[i + 1])
IntOfLiteral(t) ==
    LET u == UnsignedPart(t)
        k == ParseNat(SelectSeq(u, IsDigit))
    IN  IF Head(Strip(t)) = "-" THEN 0 - k ELSE k

\* date_as_string_to_unix_time_in_milliseconds(date)
date_as_string_to_unix_time_in_milliseconds(v, offset) ==
    IF VTruthy(v) /\ IsStr(v)
    THEN LET split_data == SplitAndStrip(v.text)
         IN  IF \E i \in DOMAIN split_data : ~IsIntLiteral(split_data[i])
             THEN Raises(v, "ValueError", "invalid_literal_for_int")
             ELSE LET string_to_int ==
                          VList([i \in DOMAIN split_data |->
                                   VInt(IntOfLiteral(split_data[i]))])
                      out == datetime_to_unix_time_in_milliseconds(string_to_int, offset)
                  IN  Outcome(v, out.returned, out.err)
    ELSE Returns(v, v)

\* local time zones of the process: UTC and two hours east of it
UtcOffsets == {0, 7200}

\* date fields callers pass
Years == {VInt(2024), VInt(0), VIntE(1728511200, 3)}
Months == {VInt(1), VInt(2), VInt(13), VStr(<<"1">>)}
Days == {VInt(1), VInt(30), VFloat(100), VIntE(3, 9), VBool(TRUE)}
Clocks ==
    {<<>>, <<VInt(7)>>, <<VInt(7), VInt(55)>>, <<VInt(24)>>,
     <<VInt(7), VInt(55), VInt(60)>>, <<VInt(7), VInt(55), VInt(0)>>,
     <<VInt(7), VInt(55), VInt(0), VInt(0)>>, <<VNone>>}
DateSequences ==
    {<<y, m, d>> \o c : y \in Years, m \in Months, d \in Days, c \in Clocks}
    \cup {<<>>, <<VInt(2024), VInt(1)>>}
DateTexts ==
    {<<"2","0","2","4",",","1",",","1">>,
     <<"2","0","2","4",","," ","7",","," ","7",","," ","7",","," ","5","5">>,
     <<"2","0","2","4",","," ","1","3",","," ","1">>,
     <<"2","0","2","4",","," ","1","1","0",","," ","1","0">>,
     <<"2","0","2","4",",","x",",","1">>,
     <<"2","0","2","4",",","1">>,
     <<"2","_","0","2","4",",","+","1",",","-","1">>,
     <<"2","0","2","4",",","1",",">>,
     <<>>}
DateInputs ==
    {VList(f) : f \in DateSequences} \cup {VTuple(f) : f \in DateSequences}
    \cup {VStr(t) : t \in DateTexts}
    \cup {VDatetime(<<2024, 11, 22, 8, 55, 0>>), VDatetime(<<1970, 1, 1, 0, 0, 0>>),
          VNone, VInt(0), VInt(5), VFloat(150), VBool(TRUE), VDict(1)}
DateTextInputs ==
    {VStr(t) : t \in DateTexts}
    \cup {VList(<<VStr(t)>>) : t \in DateTexts}
    \cup {VNone, VInt(0), VInt(5), VFloat(150), VBool(TRUE), VList(<<>>),
          VTuple(<<VInt(2024), VInt(1), VInt(1)>>),
          VList(<<VInt(2024), VInt(1), VInt(1)>>),
          VDatetime(<<2024, 11, 22, 8, 55, 0>>)}

DatetimeToUnixTimeInMilliseconds ==
    /\ op = "datetime_to_unix_time_in_milliseconds"
    /\ calls < MaxCalls
    /\ HelperStep(datetime_to_unix_time_in_milliseconds(data_obj, utc_offset), NoValue)

DateAsStringToUnixTimeInMilliseconds ==
    /\ op = "date_as_string_to_unix_time_in_milliseconds"
    /\ calls < MaxCalls
    /\ HelperStep(date_as_string_to_unix_time_in_milliseconds(data_obj, utc_offset),
                  NoValue)

(***************************************************************************)
(* check_boolean and check_integer_list.                                   *)
(***************************************************************************)
\* isinstance(value, bool)
PassesBooleanCheck_any_int(v) == IsInt(v)
PassesBooleanCheck(v) == IsBool(v)

\* check_boolean(value)
check_boolean(v) ==
    IF ~PassesBooleanCheck(v)
    THEN Raises(v, "TypeError", "not_a_boolean")
    ELSE Returns(v, v)

\* check_integer_list(data): returns nothing, that is None
check_integer_list(v) ==
    IF ~IsList(v)
    THEN Raises(v, "TypeError", "not_a_list")
    ELSE IF \E i \in DOMAIN v.items : ~IsInt(v.items[i])
         THEN Raises(v, "TypeError", "item_not_an_integer")
         ELSE Returns(v, VNone)

BooleanInputs ==
    {VBool(TRUE), VBool(FALSE), VInt(0), VInt(1), VInt(11), VFloat(121), VNone,
     VStr(<<"t", "r", "u", "e">>), VStr(<<>>), VList(<<>>),
     VList(<<VInt(1), VInt(2)>>), VTuple(<<VInt(1), VInt(2)>>)}

CheckBoolean ==
    /\ op = "check_boolean"
    /\ calls < MaxCalls
    /\ HelperStep(check_boolean(data_obj), NoValue)

(***************************************************************************)
(* split_string_array and split_int_array.                                 *)
(***************************************************************************)
\* len(split_data) == 1
NeedsFiller_never(xs) == FALSE
NeedsFiller(xs) == Len(xs) = 1

\* split_string_array draws a filler for this argument
SplitStringDrawsFiller(v) ==
    /\ VTruthy(v) /\ IsList(v) /\ Len(v.items) = 1 /\ IsStr(v.items[1])
    /\ NeedsFiller(SplitAndStrip(v.items[1].text))

\* split_string_array(data), r being the filler drawn; the list returned for
\* a one-element list is a new one
split_string_array(v, r) ==
    IF VTruthy(v)
    THEN IF ~IsList(v)
         THEN Raises(v, "TypeError", "not_a_list")
         ELSE IF Len(v.items) > 1
         THEN Returns(v, v)
         ELSE IF ~IsStr(v.items[1])
         THEN Raises(v, "AttributeError", "no_split")
         ELSE LET tokens == SplitAndStrip(v.items[1].text)
                  split_data == [i \in DOMAIN tokens |-> VStr(tokens[i])]
              IN  IF NeedsFiller(split_data)
                  THEN Returns(v, VList(Append(split_data, r)))
                  ELSE Returns(v, VList(split_data))
    ELSE Returns(v, v)

\* str.strip(","): commas removed at both ends
RECURSIVE LStripCommas(_)
LStripCommas(t) == IF t # <<>> /\ Head(t) = "," THEN LStripCommas(Tail(t)) ELSE t
RECURSIVE RStripCommas(_)
RStripCommas(t) ==
    IF t # <<>> /\ t[Len(t)] = "," THEN RStripCommas(SubSeq(t, 1, Len(t) - 1)) ELSE t
StripCommas_kept(t) == t
StripCommas(t) == RStripCommas(LStripCommas(t))

\* isinstance(data[0], int) and not isinstance(data[0], bool)
IsPlainInt(v) == IsInt(v) /\ ~IsBool(v)

\* [int(str(_).strip()) for _ in data[0].strip(",").split(",")], or the
\* ValueError of int()
ParsedInts(t) ==
    LET tokens == SplitAndStrip(StripCommas(t))
    IN  IF \E i \in DOMAIN tokens : ~IsIntLiteral(tokens[i])
        THEN Raises(NoValue, "ValueError", "not_numbers")
        ELSE Returns(NoValue, VList([i \in DOMAIN tokens |-> VInt(IntOfLiteral(tokens[i]))]))

\* split_int_array draws a filler for this argument
SplitIntDrawsFiller(v) ==
    /\ VTruthy(v) /\ IsList(v) /\ Len(v.items) = 1
    /\ \/ IsPlainInt(v.items[1])
       \/ /\ IsStr(v.items[1])
          /\ ParsedInts(v.items[1].text).err = NoError
          /\ NeedsFiller(ParsedInts(v.items[1].text).returned.items)

\* split_int_array(data), r being the filler drawn; a string is parsed into a
\* new list, any other element stays in the caller's list, which is the
\* object the filler is appended to
split_int_array(v, r) ==
    IF VTruthy(v)
    THEN IF ~IsList(v)
         THEN Raises(v, "TypeError", "not_a_list")
         ELSE IF Len(v.items) # 1
         THEN Raises(v, "ValueError", "not_a_single_element")
         ELSE IF IsStr(v.items[1])
         THEN LET parsed == ParsedInts(v.items[1].text)
              IN  IF parsed.err # NoError
                  THEN Outcome(v, NoValue, parsed.err)
                  ELSE IF NeedsFiller(parsed.returned.items)
                  THEN Returns(v, VList(Append(parsed.returned.items, r)))
                  ELSE Returns(v, parsed.returned)
         ELSE IF NeedsFiller(v.items) /\ IsPlainInt(v.items[1])
         THEN LET w == VList(Append(v.items, r)) IN Returns(w, w)
         ELSE Returns(v, v)
    ELSE Returns(v, v)

\* the texts callers put into a one-element list
OneStringList(t) == VList(<<VStr(t)>>)
SplitStringInputs ==
    {OneStringList(t) : t \in
        {<<"a", ",", " ", "b", " ", ",", "c">>, <<"a">>, <<>>, <<" ", "a", " ">>,
         <<"a", ",", ",", "b">>, <<",">>, <<"a", " ", "b">>}}
      \cup Lists \cup NonLists \cup {VList(<<VNone>>)}
SplitIntInputs ==
    {OneStringList(t) : t \in
        {<<"1", ",", "2">>, <<"1">>, <<",", "1", ",", "2", ",">>,
         <<"1", ",", ",", "2">>, <<"1", ",", "x">>, <<>>, <<",">>, <<" ">>,
         <<" ", "7", " ", ",", " ", "8", " ">>, <<"-", "5">>, <<"+", "5">>,
         <<"1", "_", "0">>, <<"1", ".", "5">>, <<"7", ",">>}}
      \cup {VList(<<x>>) : x \in {VInt(5), VInt(0), VBool(TRUE), VBool(FALSE),
                                  VFloat(150), VNone, VList(<<VInt(1)>>)}}
      \cup Lists \cup NonLists

SplitStringArray ==
    /\ op = "split_string_array"
    /\ calls < MaxCalls
    /\ \E r \in (IF SplitStringDrawsFiller(data_obj) THEN StringFillers ELSE {NoValue}) :
          HelperStep(split_string_array(data_obj, r), r)

SplitIntArray ==
    /\ op = "split_int_array"
    /\ calls < MaxCalls
    /\ \E r \in (IF SplitIntDrawsFiller(data_obj) THEN NumberFillers ELSE {NoValue}) :
          HelperStep(split_int_array(data_obj, r), r)

\* the helpers each copy of the code has
HelpersOf(copy) ==
    IF copy = "legacy"
    THEN {"check_and_adjust_list_length", "datetime_to_unix_time_in_milliseconds",
          "check_boolean"}
    ELSE {"check_and_adjust_list_length", "datetime_to_unix_time_in_milliseconds",
          "date_as_string_to_unix_time_in_milliseconds", "check_boolean",
          "split_string_array", "split_int_array"}

\* the arguments the model passes to each helper
HelperInputs(helper) ==
    CASE helper = "check_and_adjust_list_length" -> ListLengthInputs
      [] helper = "datetime_to_unix_time_in_milliseconds" -> DateInputs
      [] helper = "date_as_string_to_unix_time_in_milliseconds" -> DateTextInputs
      [] helper = "check_boolean" -> BooleanInputs
      [] helper = "split_string_array" -> SplitStringInputs
      [] helper = "split_int_array" -> SplitIntInputs

InitHandlers ==
    /\ impl \in Impls
    /\ op \in HelpersOf(impl)
    /\ pc = "called"
    /\ team_id = PyNone
    /\ username = <<>>
    /\ only_billable = FALSE
    /\ workspaces = NoTeamsResponse
    /\ teams = PyNone
    /\ assignee = 0
    /\ is_user_in_workspace = "unbound"
    /\ members_seen = {}
    /\ requests = <<>>
    /\ responses = <<>>
    /\ last_response = NoData
    /\ result = NoValue
    /\ err = NoError
    /\ fmt_in = 0
    /\ fmt_out = <<>>
    /\ data_given \in HelperInputs(op)
    /\ data_obj = data_given
    /\ append_number \in (IF op = "check_and_adjust_list_length"
                          THEN BOOLEAN ELSE {FALSE})
    /\ random_value = NoValue
    /\ calls = 0
    /\ utc_offset \in (IF op \in {"datetime_to_unix_time_in_milliseconds",
                                  "date_as_string_to_unix_time_in_milliseconds"}
                       THEN UtcOffsets ELSE {0})
    /\ args = NoValue
    /\ query = NoValue
    /\ InstanceIdle
    /\ ChecklistIdle

NextHandlers ==
    \/ CheckAndAdjustListLength
    \/ DatetimeToUnixTimeInMilliseconds
    \/ DateAsStringToUnixTimeInMilliseconds
    \/ CheckBoolean
    \/ SplitStringArray
    \/ SplitIntArray

SpecHandlers == InitHandlers /\ [][NextHandlers]_vars

(***************************************************************************)
(* Vocabulary of the properties of the helpers.                            *)
(***************************************************************************)
\* the helper named was called n times and the latest call returned
Returned(helper, n) == op = helper /\ pc = "returned" /\ calls = n
\* ... and the latest call raised
Raised(helper, n) == op = helper /\ pc = "raised" /\ calls = n

IsAlnum(c) == IsDigit(c) \/ c \in Letters

(***************************************************************************)
(* C11. For every one-element list [x], check_and_adjust_list_length       *)
(* returns a list of exactly two elements whose first element is x, with   *)
(* append_number false and with append_number true.                        *)
(***************************************************************************)
C11_OneElementListPadded ==
    (Returned("check_and_adjust_list_length", 1)
       /\ IsList(data_given) /\ Len(data_given.items) = 1)
    => /\ IsList(result)
       /\ Len(result.items) = 2
       /\ result.items[1] = data_given.items[1]

C11_Witness ==
    /\ Returned("check_and_adjust_list_length", 1)
    /\ append_number
    /\ data_given = VList(<<VInt(1)>>)
    /\ Len(result.items) = 2
    /\ result.items[1] = VInt(1)

(***************************************************************************)
(* C12. For every list of length 0 or of length 2 or more,                 *)
(* check_and_adjust_list_length returns a list equal to its input,         *)
(* whatever append_number is.                                              *)
(***************************************************************************)
C12_OtherListsUnchanged ==
    (op = "check_and_adjust_list_length" /\ calls = 1
       /\ IsList(data_given) /\ Len(data_given.items) # 1)
    => pc = "returned" /\ result = data_given

C12_Witness ==
    /\ Returned("check_and_adjust_list_length", 1)
    /\ append_number
    /\ data_given = VList(<<VInt(1), VStr(<<"a">>)>>)
    /\ result = data_given

(***************************************************************************)
(* C13. check_and_adjust_list_length raises a type error for every input   *)
(* that is a tuple, a string, an integer or a float, empty and zero ones   *)
(* included, and never returns such an input.                              *)
(***************************************************************************)
C13_NonListsRejected ==
    (op = "check_and_adjust_list_length" /\ calls >= 1
       /\ data_given.type \in {"tuple", "str", "int", "float"})
    => pc = "raised" /\ err.exc = "TypeError"

(***************************************************************************)
(* C14. check_and_adjust_list_length leaves the list object of the caller  *)
(* as it was: after any number of calls the object has the contents the    *)
(* caller gave it.                                                         *)
(***************************************************************************)
C14_CallerListUntouched ==
    (op = "check_and_adjust_list_length" /\ calls >= 1) => data_obj = data_given

(***************************************************************************)
(* C15. A filler drawn as a number is an integer of eight digits, from     *)
(* 10000000 to 99999999, and a filler drawn as a string has exactly eight  *)
(* characters, all letters or digits.                                      *)
(***************************************************************************)
C15_FillerEightDigits ==
    /\ random_value.type = "int" =>
          random_value.n >= 10000000 /\ random_value.n <= 99999999
    /\ random_value.type = "str" =>
          /\ Len(random_value.text) = FillerLength
          /\ \A i \in DOMAIN random_value.text : IsAlnum(random_value.text[i])

(***************************************************************************)
(* C16. date_as_string_to_unix_time_in_milliseconds raises a type error    *)
(* for every argument that is not a string, a one-element list holding a   *)
(* date string included, and never returns such an argument.               *)
(***************************************************************************)
C16_NonStringsRejected ==
    (op = "date_as_string_to_unix_time_in_milliseconds" /\ calls >= 1
       /\ ~IsStr(data_given))
    => pc = "raised" /\ err.exc = "TypeError"

\* a list or tuple of three to six fields
IsDateSequence(v) ==
    v.type \in {"list", "tuple"} /\ Len(v.items) >= 3 /\ Len(v.items) <= 6
\* all its fields are integers and one of them is no year, month, day, hour,
\* minute or second of the calendar
HasFieldOutOfCalendar(v) ==
    /\ \A i \in DOMAIN v.items : v.items[i].type = "int"
    /\ \/ \E i \in DOMAIN v.items : ~FitsCInt(v.items[i])
       \/ ~FieldsInRange([i \in DOMAIN v.items |-> NumberOf(v.items[i])])
HasNonIntegerField(v) == \E i \in DOMAIN v.items : ~IsInt(v.items[i])

(***************************************************************************)
(* C17. datetime_to_unix_time_in_milliseconds raises DateSequenceError for *)
(* a list or tuple of 3 to 6 integers with a field out of calendar range,  *)
(* DateTypeError for a list or tuple of 3 to 6 fields one of which is not  *)
(* an integer, and the date-data error for every truthy value that is      *)
(* neither a datetime nor a list or tuple of 3 to 6 fields.                *)
(***************************************************************************)
C17_BadDatesClassified ==
    (op = "datetime_to_unix_time_in_milliseconds" /\ calls >= 1)
    => /\ (IsDateSequence(data_given) /\ HasFieldOutOfCalendar(data_given))
             => pc = "raised" /\ err.exc = "DateSequenceError"
       /\ (IsDateSequence(data_given) /\ HasNonIntegerField(data_given))
             => pc = "raised" /\ err.exc = "DateTypeError"
       /\ (VTruthy(data_given) /\ data_given.type # "datetime"
             /\ ~IsDateSequence(data_given))
             => pc = "raised" /\ err.exc \in {"DateDataError", "DateValueError"}

(***************************************************************************)
(* get_tasks (clickup_api_oop/get_methods.py, and the same body in         *)
(* clickup_api/clickup_api.py).  args holds the arguments by name, query   *)
(* the dictionary built from them; the lists among the arguments are the   *)
(* caller's objects.                                                       *)
(***************************************************************************)
WireTrue == VStr(<<"t", "r", "u", "e">>)
WireFalse == VStr(<<"f", "a", "l", "s", "e">>)

\* "true" if check_boolean(value) else otherwise
BooleanParam(v, otherwise) ==
    LET checked == check_boolean(v)
    IN  IF checked.err # NoError THEN checked
        ELSE Returns(v, IF VTruthy(checked.returned) THEN WireTrue ELSE otherwise)

\* datetime_to_unix_time_in_milliseconds(date) if date else date
DateParam(v, offset) ==
    IF VTruthy(v) THEN datetime_to_unix_time_in_milliseconds(v, offset)
    ELSE Returns(v, v)

\* check_integer_list(custom_items) if custom_items else custom_items
IntegerListParam(v) == IF VTruthy(v) THEN check_integer_list(v) ELSE Returns(v, v)

\* the keys of the query in the order the dictionary display evaluates them
QueryKeys ==
    <<"archived", "include_markdown_description", "page", "order_by", "reverse",
      "subtasks", "statuses", "include_closed", "assignees", "tags",
      "due_date_gt", "due_date_lt", "date_created_gt", "date_created_lt",
      "date_updated_gt", "date_updated_lt", "date_done_gt", "date_done_lt",
      "custom_fields", "custom_items">>

BooleanKeys == {"archived", "include_markdown_description", "reverse", "include_closed"}
ListKeys == {"statuses", "assignees", "tags"}
DateKeys ==
    {"due_date_gt", "due_date_lt", "date_created_gt", "date_created_lt",
     "date_updated_gt", "date_updated_lt", "date_done_gt", "date_done_lt"}

\* the value of one key of the query: what its expression does to the
\* argument of that name; fillers gives the filler drawn for each list
QueryValue(key, a, fillers, offset) ==
    CASE key \in BooleanKeys -> BooleanParam(a[key], WireFalse)
      [] key = "subtasks" -> BooleanParam(a[key], VNone)
      [] key \in ListKeys -> check_and_adjust_list_length(a[key], fillers[key])
      [] key \in DateKeys -> DateParam(a[key], offset)
      [] key = "custom_items" -> IntegerListParam(a[key])
      [] OTHER -> Returns(a[key], a[key])

\* position in QueryKeys of the first key whose expression raises, 0 if none
RECURSIVE FirstRaising(_, _)
FirstRaising(outs, i) ==
    IF i > Len(QueryKeys) THEN 0
    ELSE IF outs[QueryKeys[i]].err # NoError THEN i
    ELSE FirstRaising(outs, i + 1)

KeyPosition(key) == CHOOSE i \in DOMAIN QueryKeys : QueryKeys[i] = key

\* the arguments after the expressions of the first k keys were evaluated:
\* the helpers leave their list objects changed
ArgsAfter(a, outs, k) ==
    [name \in DOMAIN a |->
        IF name \in ListKeys /\ KeyPosition(name) <= k
        THEN outs[name].obj ELSE a[name]]

OrderByChoices ==
    {<<"i", "d">>, <<"c", "r", "e", "a", "t", "e", "d">>,
     <<"u", "p", "d", "a", "t", "e", "d">>, <<"d", "u", "e", "_", "d", "a", "t", "e">>}

\* the token of the instance, sent when the call passes none
InstanceToken == <<"p", "k", "_", "1">>

\* check_token(token)
check_token_any_string(v) ==
    IF ~IsStr(v) THEN Raises(v, "TypeError", "token_type") ELSE Returns(v, VNone)
check_token(v) ==
    IF ~IsStr(v) THEN Raises(v, "TypeError", "token_type")
    ELSE IF Len(v.text) = 0 THEN Raises(v, "ValueError", "empty_token")
    ELSE Returns(v, VNone)

\* self.header(token=token): the Authorization value, or the exception
\* stored being the _token of the instance
header(stored, token) ==
    IF ~VTruthy(token) THEN Returns(token, stored)
    ELSE IF check_token(token).err # NoError THEN check_token(token)
    ELSE Returns(token, token)

\* GET list/<list_id>/task
TasksRequest(list_id, params, authorization) ==
    [endpoint |-> "list/task", list_id |-> list_id, params |-> params,
     authorization |-> authorization]

\* what a call of get_tasks does: the arguments afterwards, the query built,
\* the request issued and the exception raised
TasksOutcome(a, q, reqs, e) == [args |-> a, query |-> q, requests |-> reqs, err |-> e]

\* if custom_fields:
CustomFieldsGiven_never(a) == FALSE
CustomFieldsGiven(a) == VTruthy(a.custom_fields)

\* get_tasks(...) up to the request
get_tasks(a, fillers, offset) ==
    IF ~IsStr(a.order_by)
    THEN TasksOutcome(a, NoValue, <<>>, Raise("TypeError", "order_by_type"))
    ELSE IF a.order_by.text \notin OrderByChoices
    THEN TasksOutcome(a, NoValue, <<>>, Raise("ValueError", "order_by_choice"))
    ELSE IF CustomFieldsGiven(a)
    THEN TasksOutcome(a, NoValue, <<>>, Raise("NotImplementedError", "custom_fields"))
    ELSE
      LET byKey == [key \in {QueryKeys[i] : i \in DOMAIN QueryKeys} |->
                      QueryValue(key, a, fillers, offset)]
          k == FirstRaising(byKey, 1)
          q == [key \in DOMAIN byKey |-> byKey[key].returned]
      IN  IF k # 0
          THEN TasksOutcome(ArgsAfter(a, byKey, k), NoValue, <<>>,
                            byKey[QueryKeys[k]].err)
          ELSE IF header(VStr(InstanceToken), a.token).err # NoError
               THEN TasksOutcome(ArgsAfter(a, byKey, Len(QueryKeys)), q, <<>>,
                                 header(VStr(InstanceToken), a.token).err)
               ELSE TasksOutcome(ArgsAfter(a, byKey, Len(QueryKeys)), q,
                                 <<TasksRequest(a.list_id, q, header(VStr(InstanceToken), a.token).returned)>>,
                                 NoError)

\* the parameters requests sends: one pair for a value that is not None,
\* one pair for each element that is not None of a list or a tuple, so that
\* None and a list without such an element give no parameter
SentParams(q) ==
    {key \in DOMAIN q :
        /\ q[key].type # "NoneType"
        /\ q[key].type \in {"list", "tuple"}
              => \E i \in DOMAIN q[key].items : q[key].items[i].type # "NoneType"}

\* the responses of the remote: a body with tasks, or an error body
Response(status) == Value("Response", status, 0, <<>>, <<VDict(1)>>)
TasksResponses == {Response(200), Response(401)}
\* response.json()
JsonOf(response) == response.items[1]

\* the arguments of a call that passes only list_id
DefaultArgs ==
    [list_id |-> VInt(7), archived |-> VBool(FALSE),
     include_markdown_description |-> VBool(FALSE), page |-> VInt(0),
     order_by |-> VStr(<<"c", "r", "e", "a", "t", "e", "d">>),
     reverse |-> VBool(FALSE), subtasks |-> VBool(FALSE), statuses |-> VNone,
     include_closed |-> VBool(FALSE), assignees |-> VNone, tags |-> VNone,
     due_date_gt |-> VNone, due_date_lt |-> VNone, date_created_gt |-> VNone,
     date_created_lt |-> VNone, date_updated_gt |-> VNone, date_updated_lt |-> VNone,
     date_done_gt |-> VNone, date_done_lt |-> VNone, custom_fields |-> VNone,
     custom_items |-> VNone, as_json |-> VBool(TRUE), token |-> VNone]

BooleanArgs == {VBool(TRUE), VBool(FALSE), VInt(1)}
OrderByArgs ==
    {VStr(t) : t \in OrderByChoices}
    \cup {VStr(<<"n", "a", "m", "e">>), VStr(<<>>), VInt(1), VNone}
CustomFieldsArgs == {VNone, VList(<<>>), VList(<<VStr(<<"f">>)>>), VStr(<<"f">>)}
FilterListArgs ==
    {VNone, VList(<<>>), VList(<<VStr(<<"a">>)>>),
     VList(<<VStr(<<"a">>), VStr(<<"b">>)>>), VTuple(<<VStr(<<"a">>)>>)}
DateArgs ==
    {VNone, VList(<<VInt(2024), VInt(1), VInt(1)>>),
     VList(<<VInt(2024), VInt(13), VInt(1)>>), VStr(<<"2", "0", "2", "4">>),
     VDatetime(<<2024, 11, 22, 8, 55, 0>>)}
CustomItemsArgs ==
    {VNone, VList(<<>>), VList(<<VInt(1)>>), VList(<<VInt(1), VInt(2)>>),
     VList(<<VInt(1), VStr(<<"x">>)>>), VTuple(<<VInt(1), VInt(2)>>)}
TokenArgs == {VNone, VStr(<<>>), VStr(<<"p", "k", "_", "2">>), VInt(5)}

\* the calls of get_tasks of the model: the default call with the arguments
\* of one kind replaced
GetTasksArgs ==
    {[DefaultArgs EXCEPT !.archived = b1, !.include_markdown_description = b2,
                         !.reverse = b3, !.subtasks = b4, !.include_closed = b5] :
        b1 \in BooleanArgs, b2 \in BooleanArgs, b3 \in BooleanArgs,
        b4 \in BooleanArgs, b5 \in BooleanArgs}
    \cup {[DefaultArgs EXCEPT !.order_by = o, !.custom_fields = c, !.subtasks = b] :
        o \in OrderByArgs, c \in CustomFieldsArgs, b \in BooleanArgs}
    \cup {[DefaultArgs EXCEPT ![key] = l, !.date_done_lt = d] :
        key \in ListKeys, l \in FilterListArgs,
        d \in {VNone, VList(<<VInt(2024), VInt(13), VInt(1)>>)}}
    \cup {[DefaultArgs EXCEPT !.due_date_gt = d1, !.date_done_lt = d2] :
        d1 \in DateArgs, d2 \in DateArgs}
    \cup {[DefaultArgs EXCEPT !.custom_items = c, !.token = t, !.as_json = j] :
        c \in CustomItemsArgs, t \in TokenArgs, j \in {VBool(TRUE), VBool(FALSE)}}

\* the string fillers check_and_adjust_list_length can draw for an argument
FillerChoices(v) == IF ListLengthDrawsFiller(v) THEN StringFillers ELSE {NoValue}

\* get_tasks up to the moment requests.get is entered: the checks, the
\* query, the header and the request; the call then waits for the remote
GetTasks ==
    /\ op = "get_tasks"
    /\ pc = "called"
    /\ \E r1 \in FillerChoices(args.statuses), r2 \in FillerChoices(args.assignees),
          r3 \in FillerChoices(args.tags) :
          LET fillers == [key \in ListKeys |->
                             CASE key = "statuses" -> r1
                               [] key = "assignees" -> r2
                               [] key = "tags" -> r3]
              out == get_tasks(args, fillers, utc_offset)
          IN  /\ args' = out.args
              /\ query' = out.query
              /\ requests' = out.requests
              /\ err' = out.err
              /\ pc' = IF out.err = NoError THEN "requests_get" ELSE "raised"
              /\ result' = NoValue
    /\ UNCHANGED <<impl, op, team_id, username, only_billable, workspaces, teams,
                   assignee, is_user_in_workspace, members_seen, responses,
                   last_response, fmt_in, fmt_out, data_obj, data_given,
                   append_number, random_value, calls, utc_offset,
                   ivars, cvars>>

\* the response of the remote arrives:
\* return response.json() if as_json else response
GetTasksReturn ==
    /\ op = "get_tasks"
    /\ pc = "requests_get"
    /\ \E response \in TasksResponses :
          result' = IF VTruthy(args.as_json) THEN JsonOf(response) ELSE response
    /\ pc' = "returned"
    /\ UNCHANGED <<impl, op, team_id, username, only_billable, workspaces, teams,
                   assignee, is_user_in_workspace, members_seen, requests, responses,
                   last_response, err, fmt_in, fmt_out, hvars, ivars, cvars>>

\* a call of get_tasks, or a call of check_boolean on its own
InitGetTasks ==
    /\ impl \in Impls
    /\ op \in {"get_tasks", "check_boolean"}
    /\ pc = "called"
    /\ team_id = PyNone
    /\ username = <<>>
    /\ only_billable = FALSE
    /\ workspaces = NoTeamsResponse
    /\ teams = PyNone
    /\ assignee = 0
    /\ is_user_in_workspace = "unbound"
    /\ members_seen = {}
    /\ requests = <<>>
    /\ responses = <<>>
    /\ last_response = NoData
    /\ result = NoValue
    /\ err = NoError
    /\ fmt_in = 0
    /\ fmt_out = <<>>
    /\ data_given \in (IF op = "check_boolean" THEN BooleanInputs ELSE {NoValue})
    /\ data_obj = data_given
    /\ append_number = FALSE
    /\ random_value = NoValue
    /\ calls = 0
    /\ utc_offset \in (IF op = "get_tasks" THEN UtcOffsets ELSE {0})
    /\ args \in (IF op = "get_tasks" THEN GetTasksArgs ELSE {NoValue})
    /\ query = NoValue
    /\ InstanceIdle
    /\ ChecklistIdle

NextGetTasks ==
    \/ GetTasks
    \/ GetTasksReturn
    \/ CheckBoolean

SpecGetTasks == InitGetTasks /\ [][NextGetTasks]_vars

\* the boolean arguments of get_tasks that go into the query
CheckedBooleanKeys == BooleanKeys \cup {"subtasks"}

\* check_boolean returns a boolean as it is and raises TypeError otherwise
BooleanValidated ==
    (op = "check_boolean" /\ calls >= 1)
    => IF IsBool(data_given)
       THEN pc = "returned" /\ result = data_given
       ELSE pc = "raised" /\ err.exc = "TypeError"

\* the text for a boolean
WireTextOf(v) == IF v = VBool(TRUE) THEN WireTrue ELSE WireFalse

(***************************************************************************)
(* C18, as stated.  check_boolean returns True for True and False for      *)
(* False and raises a type error for every other value (0, 1, "true" and   *)
(* None among them); every boolean argument get_tasks has validated is in  *)
(* the query as the text "true" for True and "false" for False.            *)
(***************************************************************************)
C18_BooleansSentAsText ==
    /\ BooleanValidated
    /\ (op = "get_tasks" /\ pc = "returned")
       => \A key \in CheckedBooleanKeys :
             /\ IsBool(args[key])
             /\ query[key] = WireTextOf(args[key])

(***************************************************************************)
(* C18, amended.  As above, except that get_tasks puts a False subtasks    *)
(* argument into the query as None, so that no subtasks parameter is sent: *)
(* archived, include_markdown_description, reverse and include_closed are  *)
(* "true" or "false", subtasks is "true" or absent.                        *)
(***************************************************************************)
C18_BooleansSentExceptSubtasks ==
    /\ BooleanValidated
    /\ (op = "get_tasks" /\ pc = "returned")
       => /\ \A key \in BooleanKeys :
                /\ IsBool(args[key])
                /\ query[key] = WireTextOf(args[key])
          /\ IsBool(args.subtasks)
          /\ query.subtasks = (IF args.subtasks = VBool(TRUE) THEN WireTrue ELSE VNone)
          /\ ("subtasks" \in SentParams(requests[1].params))
                <=> args.subtasks = VBool(TRUE)

C18_Witness ==
    /\ op = "get_tasks" /\ pc = "returned"
    /\ args.archived = VBool(TRUE)
    /\ args.subtasks = VBool(FALSE)
    /\ query.archived = WireTrue
    /\ query.include_closed = WireFalse
    /\ query.subtasks = VNone
    /\ Len(requests) = 1

\* the positions of the commas of a text, and the text between the
\* (j-1)-th and the j-th of them
CommaPositions(t) == {i \in DOMAIN t : t[i] = ","}
NthComma(t, j) ==
    IF j = 0 THEN 0
    ELSE IF j > Cardinality(CommaPositions(t)) THEN Len(t) + 1
    ELSE CHOOSE i \in CommaPositions(t) :
            Cardinality({k \in CommaPositions(t) : k < i}) = j - 1
Segment(t, j) == SubSeq(t, NthComma(t, j - 1) + 1, NthComma(t, j) - 1)

\* tok is seg without the white space around it
IsTrimOf(tok, seg) ==
    /\ tok = <<>> \/ (~IsSpace(tok[1]) /\ ~IsSpace(tok[Len(tok)]))
    /\ \E a \in 0..Len(seg) :
          /\ a + Len(tok) <= Len(seg)
          /\ SubSeq(seg, a + 1, a + Len(tok)) = tok
          /\ \A i \in DOMAIN seg : (i <= a \/ i > a + Len(tok)) => IsSpace(seg[i])

\* the argument is a list of exactly one string
IsOneStringList(v) == IsList(v) /\ Len(v.items) = 1 /\ IsStr(v.items[1])

(***************************************************************************)
(* C19. split_string_array called with a list of exactly one string        *)
(* returns a list whose elements are the texts between the commas of that  *)
(* string, in order, each without the white space around it; when there is *)
(* one such token the list returned is that token followed by the random   *)
(* string filler drawn, so that the list returned never has length 1.      *)
(***************************************************************************)
C19_OneStringSplitAndPadded ==
    (op = "split_string_array" /\ calls >= 1 /\ IsOneStringList(data_given))
    => LET t == data_given.items[1].text
           n == Cardinality(CommaPositions(t)) + 1
       IN  /\ pc = "returned"
           /\ IsList(result)
           /\ Len(result.items) = (IF n = 1 THEN 2 ELSE n)
           /\ \A j \in 1..n :
                 /\ IsStr(result.items[j])
                 /\ IsTrimOf(result.items[j].text, Segment(t, j))
           /\ n = 1 => /\ random_value \in StringFillers
                       /\ result.items[2] = random_value
           /\ n > 1 => random_value = NoValue
           /\ Len(result.items) # 1

C19_Witness ==
    /\ Returned("split_string_array", 1)
    /\ data_given = OneStringList(<<"a", ",", " ", "b", " ", ",", "c">>)
    /\ result = VList(<<VStr(<<"a">>), VStr(<<"b">>), VStr(<<"c">>)>>)

\* the text without the commas in front of its first and after its last
\* character that is not a comma
WithoutOuterCommas(t) ==
    LET inner == DOMAIN t \ CommaPositions(t)
    IN  IF inner = {} THEN <<>>
        ELSE SubSeq(t, CHOOSE i \in inner : \A k \in inner : i <= k,
                       CHOOSE i \in inner : \A k \in inner : i >= k)

\* split_int_array raised its value error
RaisedValueError == pc = "raised" /\ err.exc = "ValueError"

\* split_int_array returned the integers the comma-separated tokens of t
\* spell, a lone one followed by the filler drawn, or raised its value error
\* because one of the tokens is not the text of an integer
ParsedOrValueError(t) ==
    LET n == Cardinality(CommaPositions(t)) + 1
    IN  IF \E j \in 1..n : ~IsIntLiteral(Segment(t, j))
        THEN RaisedValueError
        ELSE /\ pc = "returned"
             /\ IsList(result)
             /\ Len(result.items) = (IF n = 1 THEN 2 ELSE n)
             /\ \A j \in 1..n : result.items[j] = VInt(IntOfLiteral(Segment(t, j)))
             /\ n = 1 => /\ random_value \in NumberFillers
                         /\ result.items[2] = random_value

\* a list of integers, two at least
IsIntegerListOfTwo(v) ==
    /\ IsList(v)
    /\ Len(v.items) >= 2
    /\ \A i \in DOMAIN v.items : IsPlainInt(v.items[i])

\* the first call of split_int_array, made with a list that is not empty
SplitIntCalledWithList ==
    op = "split_int_array" /\ calls = 1 /\ IsList(data_given) /\ data_given.items # <<>>

(***************************************************************************)
(* C20, as stated.  split_int_array called with a list that is not empty   *)
(* raises a value error unless the list has exactly one element; for one   *)
(* string element it returns the integers parsed from the comma-separated  *)
(* tokens of the string, or raises a value error when a token is not       *)
(* numeric; a parsed result of one element is followed by a random         *)
(* integer; every list it returns holds integers only, two at least.       *)
(***************************************************************************)
C20_OnlyIntegerLists ==
    SplitIntCalledWithList
    => /\ Len(data_given.items) # 1 => RaisedValueError
       /\ IsOneStringList(data_given) => ParsedOrValueError(data_given.items[1].text)
       /\ pc = "returned" => IsIntegerListOfTwo(result)

(***************************************************************************)
(* C20, amended.  split_int_array called with a list that is not empty     *)
(* raises a value error unless the list has exactly one element.  For one  *)
(* string element it drops the commas at both ends of the string and       *)
(* returns the integers parsed from the comma-separated tokens of the      *)
(* rest, or raises a value error when one of these tokens is not the text  *)
(* of an integer; a parsed result of one element is followed by a random   *)
(* integer.  One integer that is not a boolean is returned followed by a   *)
(* random integer.  In these two cases the list returned holds integers    *)
(* only, two at least.  One element of any other type (a boolean, a float, *)
(* None, a list) is returned as it is, in a list of one element.           *)
(***************************************************************************)
C20_IntegerListsFromStringsAndIntegers ==
    SplitIntCalledWithList
    => LET first == data_given.items[1]
       IN  /\ Len(data_given.items) # 1 => RaisedValueError
           /\ IsOneStringList(data_given)
                 => ParsedOrValueError(WithoutOuterCommas(first.text))
           /\ (Len(data_given.items) = 1 /\ IsPlainInt(first))
                 => /\ pc = "returned"
                    /\ random_value \in NumberFillers
                    /\ result = VList(<<first, random_value>>)
           /\ (Len(data_given.items) = 1 /\ ~IsStr(first) /\ ~IsPlainInt(first))
                 => /\ pc = "returned"
                    /\ result = data_given
                    /\ random_value = NoValue
           /\ (pc = "returned" /\ (IsStr(first) \/ IsPlainInt(first)))
                 => IsIntegerListOfTwo(result)

C20_Witness ==
    /\ Returned("split_int_array", 1)
    /\ data_given = OneStringList(<<"1">>)
    /\ random_value \in NumberFillers
    /\ result = VList(<<VInt(1), random_value>>)

\* get_tasks was called with a value for custom_fields that is not empty
CalledWithCustomFields ==
    op = "get_tasks" /\ pc # "called" /\ VTruthy(args.custom_fields)

\* order_by is one of the four fields get_tasks accepts
OrderByAccepted == IsStr(args.order_by) /\ args.order_by.text \in OrderByChoices

(***************************************************************************)
(* C21, as stated.  get_tasks called with a custom_fields value that is    *)
(* not empty raises NotImplementedError, and no request has been issued.   *)
(***************************************************************************)
C21_CustomFieldsNotImplemented ==
    CalledWithCustomFields
    => pc = "raised" /\ err.exc = "NotImplementedError" /\ requests = <<>>

(***************************************************************************)
(* C21, amended.  get_tasks called with a custom_fields value that is not  *)
(* empty always raises and issues no request; the exception is             *)
(* NotImplementedError when order_by is one of the accepted fields, and    *)
(* the TypeError or ValueError of the order_by check, which comes first,   *)
(* when it is not.                                                         *)
(***************************************************************************)
C21_CustomFieldsRejectedAfterOrderBy ==
    CalledWithCustomFields
    => /\ pc = "raised"
       /\ requests = <<>>
       /\ query = NoValue
       /\ err.exc = (IF ~IsStr(args.order_by) THEN "TypeError"
                     ELSE IF ~OrderByAccepted THEN "ValueError"
                     ELSE "NotImplementedError")

C21_Witness ==
    /\ CalledWithCustomFields
    /\ OrderByAccepted
    /\ args.custom_fields = VList(<<VStr(<<"f">>)>>)
    /\ pc = "raised" /\ err.exc = "NotImplementedError"
    /\ requests = <<>>

(***************************************************************************)
(* The class ClickUpAPI: construction, the token and api_url properties,   *)
(* header and change_available_status.                                     *)
(***************************************************************************)
\* "https://app.clickup.com/api/v2/"
_API_DEFAULT_URL ==
    <<"h", "t", "t", "p", "s", ":", "/", "/", "a", "p", "p", ".", "c", "l",
    "i", "c", "k", "u", "p", ".", "c", "o", "m", "/", "a", "p", "i", "/",
    "v", "2", "/">>

\* urlsplit drops white space in front of the url and tabs and line breaks
\* anywhere in it
UrlCleaned(t) == SelectSeq(LStrip(t), LAMBDA c : c \notin {"\t", "\n"})

\* the characters of a scheme
SchemeChars == Letters \cup {DigitChars[i] : i \in DOMAIN DigitChars} \cup {"+", "-", "."}

\* position of the colon that ends the scheme of u, 0 when u has no scheme
SchemeEnd(u) ==
    LET i == FindFrom(u, ":", 1)
    IN  IF i > 1 /\ u[1] \in Letters /\ \A k \in 1..(i - 1) : u[k] \in SchemeChars
        THEN i ELSE 0
UrlScheme(u) == SubSeq(u, 1, SchemeEnd(u) - 1)
AfterScheme(u) == SubSeq(u, SchemeEnd(u) + 1, Len(u))

\* _splitnetloc(url, 2): the text between "//" and the first of "/", "?", "#"
NetlocEnd(r) ==
    LET ends == {i \in 3..Len(r) : r[i] \in {"/", "?", "#"}}
    IN  IF ends = {} THEN Len(r) + 1 ELSE CHOOSE i \in ends : \A k \in ends : i <= k
UrlNetloc(r) ==
    IF Len(r) >= 2 /\ r[1] = "/" /\ r[2] = "/" THEN SubSeq(r, 3, NetlocEnd(r) - 1)
    ELSE <<>>

\* the hosts in brackets that _check_bracketed_host accepts, among those
\* the model passes: the IPv6 address ::1
BracketedHosts == {<<":", ":", "1">>}

\* urlsplit raises ValueError for this netloc: one bracket without the
\* other, or a host in brackets that is no address
NetlocRejected(n) ==
    LET open == FindFrom(n, "[", 1)
        close == FindFrom(n, "]", 1)
        closeAfter == IF open = 0 THEN 0 ELSE FindFrom(n, "]", open + 1)
        host == IF closeAfter = 0 THEN SubSeq(n, open + 1, Len(n))
                ELSE SubSeq(n, open + 1, closeAfter - 1)
    IN  \/ (open # 0) # (close # 0)
        \/ open # 0 /\ close # 0 /\ host \notin BracketedHosts

\* is_url(url): all([result.scheme, result.netloc]), False on ValueError
is_url(t) ==
    LET u == UrlCleaned(t)
        n == UrlNetloc(AfterScheme(u))
    IN  ~NetlocRejected(n) /\ UrlScheme(u) # <<>> /\ n # <<>>

\* url.endswith("/")
EndsWithSlash(t) == t # <<>> /\ t[Len(t)] = "/"

\* url + "/"
WithSlash_nothing_added(t) == t
WithSlash(t) == Append(t, "/")

\* the api_url setter: the value of _api_url afterwards (obj), stored being
\* the value before
api_url_setter(stored, url) ==
    IF url = VNone THEN Returns(VStr(_API_DEFAULT_URL), VNone)
    ELSE IF ~IsStr(url) THEN Raises(stored, "TypeError", "url_type")
    ELSE IF ~is_url(url.text) THEN Raises(stored, "ValueError", "not_a_url")
    ELSE IF EndsWithSlash(url.text) THEN Returns(url, VNone)
    ELSE Returns(VStr(WithSlash(url.text)), VNone)

\* the value stored after a token passed check_token: str(new_token)
StoredToken(new_token) == VStr(new_token.text)

\* the token setter: the value of _token afterwards (obj)
token_setter(stored, new_token) ==
    IF check_token(new_token).err # NoError
    THEN Outcome(stored, NoValue, check_token(new_token).err)
    ELSE Returns(StoredToken(new_token), VNone)

\* the values of the enumeration ClickupActions
ClickupActions == [ADD |-> "add", REMOVE |-> "remove"]
ActionValues == {ClickupActions.ADD, ClickupActions.REMOVE}

\* status_name in cls.available_statuses
IsAvailable(statuses, status_name) == \E i \in DOMAIN statuses : statuses[i] = status_name

\* list.remove(x): the list without the first element equal to x
RemoveFirst(statuses, status_name) ==
    LET k == CHOOSE i \in DOMAIN statuses :
                 statuses[i] = status_name /\ \A j \in 1..(i - 1) : statuses[j] # status_name
    IN  SubSeq(statuses, 1, k - 1) \o SubSeq(statuses, k + 1, Len(statuses))

\* cls.available_statuses.append(status_name)
WithStatus_always(statuses, status_name, action) == Append(statuses, status_name)
WithStatus(statuses, status_name, action) ==
    IF IsAvailable(statuses, status_name) THEN statuses ELSE Append(statuses, status_name)

\* change_available_status(status_name, action): the list afterwards (obj)
change_available_status(statuses, status_name, action) ==
    IF action \notin ActionValues
    THEN Raises(statuses, "ValueError", "action")
    ELSE IF action = ClickupActions.ADD
    THEN Returns(WithStatus(statuses, status_name, action), VNone)
    ELSE IF action = ClickupActions.REMOVE /\ IsAvailable(statuses, status_name)
    THEN Returns(RemoveFirst(statuses, status_name), VNone)
    ELSE Returns(statuses, VNone)

\* the tokens and urls callers pass
TokenValues ==
    {VStr(<<"p", "k", "_", "1">>), VStr(<<"p", "k", "_", "2">>), VStr(<<>>), VNone,
     VBool(TRUE), VInt(0), VInt(5), VList(<<VStr(<<"p", "k">>)>>)}
UrlTexts ==
    {<<"h", "t", "t", "p", "s", ":", "/", "/", "c", "l", "i", "c", "k", "u", "p", ".", "c", "o", "m", "/", "a", "p", "i">>,
     <<"h", "t", "t", "p", "s", ":", "/", "/", "c", "l", "i", "c", "k", "u", "p", ".", "c", "o", "m", "/", "a", "p", "i", "/">>,
     <<"c", "l", "i", "c", "k", "u", "p", ".", "c", "o", "m", "/", "a", "p", "i", "/">>,
     <<>>,
     <<"h", "t", "t", "p", ":", "/", "/", "a", "?", "x">>,
     <<"h", "t", "t", "p", ":", "/", "/", "/", "a">>,
     <<"h", "t", "t", "p", ":", "/", "/", "[", "a">>,
     <<"h", "t", "t", "p", ":", "/", "/", "[", ":", ":", "1", "]">>,
     <<" ", "h", "t", "t", "p", ":", "/", "/", "a">>,
     <<"/", "/", "a", "/">>,
     <<"1", "x", ":", "/", "/", "a">>}
UrlValues == {VStr(t) : t \in UrlTexts} \cup {VNone, VInt(123456), VBool(TRUE)}
StatusNames == {"nowe", "zamkniete", "do rozwazenia"}
ActionArgs == {"add", "remove", "incorrect", "ADD"}

\* the variables a call of a method of the class leaves alone
InstanceFrame ==
    UNCHANGED <<impl, team_id, username, only_billable, workspaces, teams, assignee,
                is_user_in_workspace, members_seen, requests, responses,
                last_response, fmt_in, fmt_out, data_obj, data_given,
                append_number, random_value, calls, utc_offset, query, cvars>>

\* the last call: its name, its arguments, and how it ended
Called(name, arguments, e, ret) ==
    /\ op' = name
    /\ args' = arguments
    /\ err' = e
    /\ result' = ret
    /\ pc' = IF e = NoError THEN "returned" ELSE "raised"

\* ClickUpAPI(token, api_url): self.token = token, then self.api_url = api_url
Construct ==
    /\ instance = "none"
    /\ \E token \in TokenValues, api_url \in UrlValues :
          LET t == token_setter(NoValue, token)
              u == api_url_setter(NoValue, api_url)
              e == IF t.err # NoError THEN t.err ELSE u.err
          IN  /\ Called("__init__", [token |-> token, api_url |-> api_url], e, NoValue)
              /\ instance' = IF e = NoError THEN "constructed" ELSE "none"
              /\ _token' = IF e = NoError THEN t.obj ELSE NoValue
              /\ _api_url' = IF e = NoError THEN u.obj ELSE NoValue
    /\ UNCHANGED available_statuses
    /\ InstanceFrame

\* instance.token = new_token
SetToken ==
    /\ instance = "constructed"
    /\ \E new_token \in TokenValues :
          LET t == token_setter(_token, new_token)
          IN  /\ Called("token", [new_token |-> new_token], t.err, NoValue)
              /\ _token' = t.obj
    /\ UNCHANGED <<instance, _api_url, available_statuses>>
    /\ InstanceFrame

\* instance.api_url = url
SetApiUrl ==
    /\ instance = "constructed"
    /\ \E url \in UrlValues :
          LET u == api_url_setter(_api_url, url)
          IN  /\ Called("api_url", [url |-> url], u.err, NoValue)
              /\ _api_url' = u.obj
    /\ UNCHANGED <<instance, _token, available_statuses>>
    /\ InstanceFrame

\* instance.header(token=token): the Authorization of the dictionary returned
Header ==
    /\ instance = "constructed"
    /\ \E token \in TokenValues :
          LET h == header(_token, token)
          IN  Called("header", [token |-> token], h.err, h.returned)
    /\ UNCHANGED <<instance, _token, _api_url, available_statuses>>
    /\ InstanceFrame

\* ClickUpAPI.change_available_status(status_name, action)
ChangeAvailableStatus ==
    /\ \E status_name \in StatusNames, action \in ActionArgs :
          LET c == change_available_status(available_statuses, status_name, action)
          IN  /\ Called("change_available_status",
                        [status_name |-> status_name, action |-> action], c.err, NoValue)
              /\ available_statuses' = c.obj
    /\ UNCHANGED <<instance, _token, _api_url>>
    /\ InstanceFrame

\* the class is defined and no call has been made
InitInstance ==
    /\ impl \in Impls
    /\ op = "none"
    /\ pc = "called"
    /\ team_id = PyNone
    /\ username = <<>>
    /\ only_billable = FALSE
    /\ workspaces = NoTeamsResponse
    /\ teams = PyNone
    /\ assignee = 0
    /\ is_user_in_workspace = "unbound"
    /\ members_seen = {}
    /\ requests = <<>>
    /\ responses = <<>>
    /\ last_response = NoData
    /\ result = NoValue
    /\ err = NoError
    /\ fmt_in = 0
    /\ fmt_out = <<>>
    /\ HandlersIdle
    /\ InstanceIdle
    /\ ChecklistIdle

NextInstance ==
    \/ Construct
    \/ SetToken
    \/ SetApiUrl
    \/ Header

\* the life of one instance
SpecInstance == InitInstance /\ [][NextInstance]_vars

NextStatuses == ChangeAvailableStatus

\* the calls of the class method that changes the list of statuses
SpecStatuses == InitInstance /\ [][NextStatuses]_vars

\* the step is a call of the method of that name
Calls(name) == op' = name /\ pc' # "called"
StepReturned == pc' = "returned"
StepRaised(exc) == pc' = "raised" /\ err'.exc = exc

\* a valid URL that ends with "/"
IsUrlWithSlash(v) == IsStr(v) /\ is_url(v.text) /\ EndsWithSlash(v.text)

\* what assigning url makes of api_url: the default for None, the url
\* itself when it ends with "/", the url and "/" otherwise
AssignedUrl(url) ==
    IF url = VNone THEN VStr(_API_DEFAULT_URL)
    ELSE IF EndsWithSlash(url.text) THEN url
    ELSE VStr(url.text \o <<"/">>)

\* the url can be assigned
IsAssignableUrl(url) == url = VNone \/ (IsStr(url) /\ is_url(url.text))
UrlError(url) == IF url # VNone /\ ~IsStr(url) THEN "TypeError" ELSE "ValueError"

\* the token can be assigned
IsAssignableToken(token) == IsStr(token) /\ token.text # <<>>
TokenError(token) == IF ~IsStr(token) THEN "TypeError" ELSE "ValueError"

(***************************************************************************)
(* C22. Every step leaves a constructed instance with an api_url that is   *)
(* a valid URL ending with "/".  Assigning None stores the default URL, a  *)
(* valid URL is stored with a "/" appended unless it ends with one, a      *)
(* value that is not a string raises TypeError and an invalid URL raises   *)
(* ValueError, and an assignment that raises leaves api_url as it was.     *)
(* Construction assigns api_url in the same way after the token.           *)
(***************************************************************************)
C22_ApiUrlValidWithSlash ==
    [][/\ instance' = "constructed" => IsUrlWithSlash(_api_url')
       /\ Calls("api_url")
             => IF IsAssignableUrl(args'.url)
                THEN StepReturned /\ _api_url' = AssignedUrl(args'.url)
                ELSE StepRaised(UrlError(args'.url)) /\ _api_url' = _api_url
       /\ (Calls("__init__") /\ IsAssignableToken(args'.token))
             => IF IsAssignableUrl(args'.api_url)
                THEN /\ StepReturned
                     /\ instance' = "constructed"
                     /\ _api_url' = AssignedUrl(args'.api_url)
                ELSE StepRaised(UrlError(args'.api_url)) /\ instance' = "none"]_vars

C22_Witness ==
    /\ instance = "constructed"
    /\ op = "api_url" /\ pc = "returned"
    /\ args.url = VStr(<<"h", "t", "t", "p", ":", "/", "/", "a", "?", "x">>)
    /\ _api_url = VStr(<<"h", "t", "t", "p", ":", "/", "/", "a", "?", "x", "/">>)

(***************************************************************************)
(* C23. Constructing an instance or assigning its token with a value that  *)
(* is not a string raises TypeError and with the empty string raises       *)
(* ValueError; an assignment that raises leaves the token as it was and a  *)
(* construction that raises leaves no instance; the token of a constructed *)
(* instance is always a string that is not empty.                          *)
(***************************************************************************)
C23_TokenNonEmptyString ==
    [][/\ instance' = "constructed" => IsAssignableToken(_token')
       /\ Calls("token")
             => IF IsAssignableToken(args'.new_token)
                THEN StepReturned /\ _token' = args'.new_token
                ELSE StepRaised(TokenError(args'.new_token)) /\ _token' = _token
       /\ (Calls("__init__") /\ ~IsAssignableToken(args'.token))
             => StepRaised(TokenError(args'.token)) /\ instance' = "none"
       /\ (Calls("__init__") /\ StepReturned) => _token' = args'.token]_vars

C23_Witness ==
    /\ instance = "constructed"
    /\ op = "token" /\ pc = "raised" /\ err.exc = "ValueError"
    /\ args.new_token = VStr(<<>>)
    /\ _token = VStr(<<"p", "k", "_", "2">>)

(***************************************************************************)
(* C24. A call of header with a token carries that token in Authorization  *)
(* and a call without one (None) carries the token of the instance; no     *)
(* call of header changes the token of the instance, so that a later call  *)
(* without a token carries the token of the instance again.                *)
(***************************************************************************)
C24_HeaderCarriesPassedToken ==
    [][Calls("header")
          => /\ _token' = _token
             /\ args'.token = VNone => StepReturned /\ result' = _token
             /\ IsStr(args'.token) => StepReturned /\ result' = args'.token]_vars

\* the statuses of a list, and a list without two equal statuses
StatusesOf(statuses) == {statuses[i] : i \in DOMAIN statuses}
NoDuplicates(statuses) ==
    \A i \in DOMAIN statuses, j \in DOMAIN statuses : i # j => statuses[i] # statuses[j]

(***************************************************************************)
(* C25. In every call of change_available_status, whatever calls came      *)
(* before: 'add' of a status that is absent makes the list one longer and  *)
(* the status present; 'add' of a present status and 'remove' of an absent *)
(* one leave the list as it was; 'remove' of a present status makes the    *)
(* list one shorter and the status absent; any other action raises         *)
(* ValueError and leaves the list as it was; the list never holds a        *)
(* status twice.                                                           *)
(***************************************************************************)
C25_StatusListUpdates ==
    [][Calls("change_available_status")
          => LET status_name == args'.status_name
                 action == args'.action
                 present == status_name \in StatusesOf(available_statuses)
             IN  /\ NoDuplicates(available_statuses')
                 /\ (action = "add" /\ ~present)
                       => /\ StepReturned
                          /\ Len(available_statuses') = Len(available_statuses) + 1
                          /\ status_name \in StatusesOf(available_statuses')
                 /\ (action = "add" /\ present)
                       => StepReturned /\ available_statuses' = available_statuses
                 /\ (action = "remove" /\ ~present)
                       => StepReturned /\ available_statuses' = available_statuses
                 /\ (action = "remove" /\ present)
                       => /\ StepReturned
                          /\ Len(available_statuses') = Len(available_statuses) - 1
                          /\ status_name \notin StatusesOf(available_statuses')
                 /\ action \notin {"add", "remove"}
                       => StepRaised("ValueError")
                          /\ available_statuses' = available_statuses]_vars

C25_Witness ==
    /\ op = "change_available_status" /\ pc = "returned"
    /\ args = [status_name |-> "nowe", action |-> "remove"]
    /\ "nowe" \notin StatusesOf(available_statuses)
    /\ "do rozwazenia" \in StatusesOf(available_statuses)
    /\ Len(available_statuses) = Len(InitialStatuses)

(***************************************************************************)
(* Pages whose entries may lack a key.                                     *)
(***************************************************************************)
\* user_worktime or user_tasks has gone through the fetched pages
FoldRaised ==
    /\ pc = "raised"
    /\ op \in {"user_worktime", "user_tasks"}
    /\ err.why \in EntryFields \cup {"user", "none_duration"}
FoldEnded == FoldRaised \/ (pc = "returned" /\ op \in {"user_worktime", "user_tasks"})

\* a fetched entry lacks the field f
Lacks(pos, f) == ~HasKey(EntryAt(pos), f)

\* the fields of an entry that user_worktime needs for its sum: the
\* username; the billable flag when only billable time is asked for; the
\* duration unless the entry is left out as not billable
WorktimeNeeds(pos, f) ==
    CASE f = "username" -> TRUE
      [] f = "billable" -> only_billable
      [] f = "duration" -> \/ ~only_billable
                           \/ (~Lacks(pos, "billable") /\ EntryAt(pos).billable)
      [] f = "task" -> FALSE

\* the fields of an entry that user_tasks needs for its records
TasksNeeds(pos, f) == f \in {"task", "duration"}

(***************************************************************************)
(* C26, as stated. user_worktime and user_tasks return no summary when an  *)
(* entry of a fetched page lacks its duration, its billable flag, the      *)
(* username of its user or its task, whatever only_billable is.            *)
(***************************************************************************)
C26_AbortsOnAnyMissingField ==
    (pc = "returned" /\ op \in {"user_worktime", "user_tasks"})
        => \A pos \in EntryPositions, f \in EntryFields : ~Lacks(pos, f)

(***************************************************************************)
(* C26, amended. Once the pages are fetched, user_worktime raises exactly  *)
(* when an entry lacks a field its sum needs (the username; the billable   *)
(* flag under only_billable; the duration unless the entry is left out as  *)
(* not billable) and user_tasks exactly when an entry lacks its task or    *)
(* its duration; the exception is a KeyError or a TypeError and nothing is *)
(* returned. An entry that lacks another field is summed as if it were     *)
(* whole.                                                                  *)
(***************************************************************************)
C26_AbortsOnMissingFieldNeeded ==
    FoldEnded =>
        /\ op = "user_worktime" =>
              (pc = "raised" <=> \E pos \in EntryPositions, f \in EntryFields :
                                    WorktimeNeeds(pos, f) /\ Lacks(pos, f))
        /\ op = "user_tasks" =>
              (pc = "raised" <=> \E pos \in EntryPositions, f \in EntryFields :
                                    TasksNeeds(pos, f) /\ Lacks(pos, f))
        /\ pc = "raised" => /\ result = NoResult
                            /\ err.exc \in {"KeyError", "TypeError"}

\* the entry of alice came without its billable flag and only billable time
\* was asked for
C26_Witness ==
    /\ op = "user_worktime"
    /\ pc = "raised"
    /\ only_billable
    /\ err = Raise("KeyError", "billable")
    /\ result = NoResult
    /\ \E pos \in EntryPositions :
          /\ Lacks(pos, "billable")
          /\ \A f \in EntryFields \ {"billable"} : ~Lacks(pos, f)

(***************************************************************************)
(* The order of the workspaces.                                            *)
(***************************************************************************)
\* the orderings of n workspaces
Orderings(n) == {p \in [1..n -> 1..n] : \A i, j \in 1..n : p[i] = p[j] => i = j}

\* the pages as they are fetched when the workspaces are asked in order p
Reordered(pages, p) == [i \in DOMAIN pages |-> pages[p[i]]]

(***************************************************************************)
(* C27. The map user_worktime returns does not depend on the order of the  *)
(* workspaces: when every request succeeded, the fold of the same pages    *)
(* taken in any other order of the workspaces gives the map that was       *)
(* returned.                                                               *)
(***************************************************************************)
C27_WorktimeOrderIndependent ==
    (pc = "returned" /\ op = "user_worktime") =>
        \A p \in Orderings(Len(responses)) :
            /\ WorktimeErrorOf(EntriesOf(Reordered(responses, p)), only_billable)
                  = NoError
            /\ DurationPerUser(Reordered(responses, p), only_billable) = result

\* two workspaces with different pages that both hold time of bob
C27_Witness ==
    /\ pc = "returned"
    /\ op = "user_worktime"
    /\ ~only_billable
    /\ teams = PyList(<<11, 12>>)
    /\ responses = <<PageOf(<<Entry2>>), PageOf(<<Entry3>>)>>
    /\ result = (bob :> <<"0", ":", "2", "5", ":", "0", "0">>)
    /\ DurationPerUser(<<PageOf(<<Entry3>>), PageOf(<<Entry2>>)>>, FALSE) = result

(***************************************************************************)
(* The custom id of a task record.                                         *)
(***************************************************************************)
\* position q comes before position r in the order the entries were fetched
Before(q, r) == q[1] < r[1] \/ (q[1] = r[1] /\ q[2] < r[2])

\* the first fetched entry that refers to task t
FirstEntryOf(t) ==
    EntryAt(CHOOSE q \in EntryPositions :
               /\ EntryAt(q).task.id = t
               /\ \A r \in EntryPositions \ {q} :
                     EntryAt(r).task.id = t => Before(q, r))

(***************************************************************************)
(* C28. In every task record user_tasks returns, custom_id is the custom   *)
(* id of the task of the first fetched entry that refers to the task       *)
(* (None when that entry carries none).                                    *)
(***************************************************************************)
C28_CustomIdOfTask ==
    (pc = "returned" /\ op = "user_tasks") =>
        \A i \in DOMAIN result.tasks :
            result.tasks[i].custom_id
               = FirstEntryOf(result.tasks[i].task_id).task.custom_id

(***************************************************************************)
(* The custom_items filter of get_tasks.                                   *)
(***************************************************************************)
\* get_tasks was called with a list that holds at least one element
CustomItemsListed ==
    /\ op = "get_tasks"
    /\ pc # "called"
    /\ IsList(args.custom_items)
    /\ args.custom_items.items # <<>>

AllIntegers(v) == \A i \in DOMAIN v.items : IsInt(v.items[i])

(***************************************************************************)
(* C29. get_tasks called with a non-empty list of integers as custom_items *)
(* sends these integers as the custom_items parameter of its request; when *)
(* an element of the list is not an integer it raises TypeError and sends  *)
(* no request.                                                             *)
(***************************************************************************)
C29_CustomItemsSent ==
    CustomItemsListed =>
        IF AllIntegers(args.custom_items)
        THEN pc = "returned" =>
                /\ Len(requests) = 1
                /\ requests[1].params.custom_items = args.custom_items
                /\ "custom_items" \in SentParams(requests[1].params)
        ELSE /\ pc = "raised"
             /\ err.exc = "TypeError"
             /\ requests = <<>>

(***************************************************************************)
(* create_task_with_checklist_and_items, of the class-based package: one   *)
(* request to create the task, one to create the checklist, one for each   *)
(* item.                                                                   *)
(***************************************************************************)
\* longest list of checklist items tried
MaxItems == 2

\* the bodies the remote answers a create request with: the created object,
\* or an error body without it
TaskBodies == {[has_id |-> TRUE, id |-> "t9"], NoBody}
ChecklistBodies == {[has_id |-> TRUE, id |-> "c9"], NoBody}

\* POST list/<list_id>/task, POST task/<task_id>/checklist and
\* POST checklist/<checklist_id>/checklist_item, with the name and the
\* assignee of the payload
TaskRequest ==
    [endpoint |-> "list/task", id |-> "7", name |-> VStr(<<"T">>), assignee |-> VNone]
ChecklistRequest(task_id, name) ==
    [endpoint |-> "task/checklist", id |-> task_id, name |-> name, assignee |-> VNone]
ItemRequest(checklist, name, assigned) ==
    [endpoint |-> "checklist/checklist_item", id |-> checklist, name |-> name,
     assignee |-> assigned]

\* isinstance(item, tuple)
IsTuple(v) == v.type = "tuple"

\* the body of the loop of add_items_to_a_checklist: the request made for
\* one item of the list, none for an item that is neither a tuple nor a str
ItemRequests(checklist, item) ==
    IF IsTuple(item)
    THEN IF Len(item.items) = 2
         THEN <<ItemRequest(checklist, item.items[1], item.items[2])>>
         ELSE <<ItemRequest(checklist, item, VNone)>>
    ELSE IF IsStr(item) THEN <<ItemRequest(checklist, item, VNone)>>
    ELSE <<>>

\* what the method returns
TaskWithChecklistCreated ==
    [status_code |-> "201",
     detail |-> "Task/subtask with checklist was successfully created."]

\* the rest of create_task_with_checklist_and_items once the checklist, if
\* any, is there: up to the first request of add_items_to_a_checklist
AfterChecklist ==
    IF VTruthy(args.checklist_items)
    THEN IF ~VTruthy(args.checklist_name)
         THEN /\ pc' = "raised"
              /\ err' = Raise("AttributeError", "checklist_name_required")
              /\ result' = result
         ELSE IF IsStr(args.checklist_items) \/ IsList(args.checklist_items)
         THEN /\ pc' = "add_items"
              /\ UNCHANGED <<err, result>>
         ELSE /\ pc' = "raised"
              /\ err' = Raise("AttributeError", "items_not_list_or_str")
              /\ result' = result
    ELSE /\ pc' = "returned"
         /\ result' = TaskWithChecklistCreated
         /\ err' = err

ChecklistFrame ==
    UNCHANGED <<impl, op, team_id, username, only_billable, workspaces, teams,
                assignee, is_user_in_workspace, members_seen, responses,
                last_response, fmt_in, fmt_out, data_obj, data_given,
                append_number, random_value, calls, utc_offset, args, query, ivars>>

\* task = self.create_task(...), and on to the next request; of the values
\* create_task checks while it builds its payload only notify_all is passed
\* on by the caller other than as None
CreateTask ==
    /\ op = "create_task_with_checklist_and_items"
    /\ pc = "called"
    /\ IF check_boolean(args.notify_all).err # NoError
       THEN /\ pc' = "raised"
            /\ err' = check_boolean(args.notify_all).err
            /\ UNCHANGED <<requests, task_created, result>>
       ELSE \E body \in TaskBodies :
              /\ requests' = Append(requests, TaskRequest)
              /\ task_created' = body
              /\ IF VTruthy(args.checklist_name)
                 THEN IF ~body.has_id
                      \* task["id"]
                      THEN /\ pc' = "raised"
                           /\ err' = Raise("KeyError", "id")
                           /\ result' = result
                      ELSE /\ pc' = "create_checklist"
                           /\ UNCHANGED <<err, result>>
                 ELSE AfterChecklist
    /\ UNCHANGED <<checklist_id, items_done>>
    /\ ChecklistFrame

\* checklist = self.create_checklist(...); checklist_id = checklist["checklist"]["id"]
CreateChecklist ==
    /\ op = "create_task_with_checklist_and_items"
    /\ pc = "create_checklist"
    /\ \E body \in ChecklistBodies :
          /\ requests' = Append(requests,
                                ChecklistRequest(task_created.id, args.checklist_name))
          /\ IF ~body.has_id
             THEN /\ pc' = "raised"
                  /\ err' = Raise("KeyError", "checklist")
                  /\ UNCHANGED <<checklist_id, result>>
             ELSE /\ checklist_id' = body.id
                  /\ AfterChecklist
    /\ UNCHANGED <<task_created, items_done>>
    /\ ChecklistFrame

\* add_items_to_a_checklist: the request for a str, or one turn of the loop
\* over a list
AddItem ==
    /\ op = "create_task_with_checklist_and_items"
    /\ pc = "add_items"
    /\ IF IsStr(args.checklist_items)
       THEN /\ requests' = Append(requests,
                                  ItemRequest(checklist_id, args.checklist_items, VNone))
            /\ items_done' = items_done
            /\ pc' = "returned"
            /\ result' = TaskWithChecklistCreated
       ELSE /\ requests' = requests
                            \o ItemRequests(checklist_id,
                                            args.checklist_items.items[items_done + 1])
            /\ items_done' = items_done + 1
            /\ IF items_done + 1 = Len(args.checklist_items.items)
               THEN pc' = "returned" /\ result' = TaskWithChecklistCreated
               ELSE UNCHANGED <<pc, result>>
    /\ UNCHANGED <<err, task_created, checklist_id>>
    /\ ChecklistFrame

\* the items tried: a name, a name with its assignee, a tuple of one, a
\* number
ChecklistItemValues ==
    {VStr(<<"a">>), VStr(<<"b">>), VTuple(<<VStr(<<"a">>), VInt(1)>>),
     VTuple(<<VStr(<<"a">>)>>), VInt(5)}
ChecklistItemsArgs ==
    {VNone, VStr(<<"a", "b">>), VTuple(<<VStr(<<"a">>), VStr(<<"b">>)>>), VInt(5)}
    \cup {VList(items) : items \in BoundedSeq(ChecklistItemValues, MaxItems)}
ChecklistNameArgs == {VNone, VStr(<<>>), VStr(<<"t", "o", "d", "o">>)}
ChecklistArgs ==
    [checklist_name : ChecklistNameArgs, checklist_items : ChecklistItemsArgs,
     notify_all : {VBool(FALSE), VInt(1)}]

InitChecklist ==
    /\ impl = "oop"
    /\ op = "create_task_with_checklist_and_items"
    /\ pc = "called"
    /\ team_id = PyNone
    /\ username = <<>>
    /\ only_billable = FALSE
    /\ workspaces = NoTeamsResponse
    /\ teams = PyNone
    /\ assignee = 0
    /\ is_user_in_workspace = "unbound"
    /\ members_seen = {}
    /\ requests = <<>>
    /\ responses = <<>>
    /\ last_response = NoData
    /\ result = NoResult
    /\ err = NoError
    /\ fmt_in = 0
    /\ fmt_out = <<>>
    /\ data_obj = NoValue
    /\ data_given = NoValue
    /\ append_number = FALSE
    /\ random_value = NoValue
    /\ calls = 0
    /\ utc_offset = 0
    /\ args \in ChecklistArgs
    /\ query = NoValue
    /\ InstanceIdle
    /\ ChecklistIdle

NextChecklist == CreateTask \/ CreateChecklist \/ AddItem

SpecChecklist == InitChecklist /\ [][NextChecklist]_vars

\* the call under way
ChecklistCallRuns ==
    op = "create_task_with_checklist_and_items" /\ pc # "called"

\* the requests for the items of a list, in the order of the list
RECURSIVE RequestsForItems(_)
RequestsForItems(items) ==
    IF items = <<>> THEN <<>>
    ELSE <<ItemRequest("c9", IF IsTuple(Head(items)) /\ Len(Head(items).items) = 2
                              THEN Head(items).items[1] ELSE Head(items),
                       IF IsTuple(Head(items)) /\ Len(Head(items).items) = 2
                       THEN Head(items).items[2] ELSE VNone)>>
         \o RequestsForItems(Tail(items))

\* create task, then create checklist, then one request per item
RequestsInOrder(items) ==
    <<TaskRequest, ChecklistRequest("t9", args.checklist_name)>>
    \o RequestsForItems(items)

IsPrefix(s, t) == Len(s) <= Len(t) /\ \A i \in DOMAIN s : s[i] = t[i]

(***************************************************************************)
(* C30. A call with checklist items that are not empty and without a       *)
(* checklist name raises AttributeError and has issued no request; in      *)
(* every run the requests issued are, in this order, the creation of the   *)
(* task, the creation of the checklist and one creation of an item for     *)
(* each item of the list, in the order of the list.                        *)
(***************************************************************************)
C30_RejectedBeforeAnyRequest ==
    (ChecklistCallRuns /\ IsBool(args.notify_all)) =>
        /\ (VTruthy(args.checklist_items) /\ ~VTruthy(args.checklist_name))
              => /\ pc = "raised"
                 /\ err.exc = "AttributeError"
                 /\ requests = <<>>
        /\ IsPrefix(requests,
                    RequestsInOrder(IF IsList(args.checklist_items)
                                    THEN args.checklist_items.items
                                    ELSE <<args.checklist_items>>))
        /\ (pc = "returned" /\ IsList(args.checklist_items)
               /\ VTruthy(args.checklist_name))
              => Len(requests) = 2 + Len(args.checklist_items.items)

====
